---- MODULE Spec2Model ----
(***************************************************************************)
(* Model of the sales-metrics API (src/controllers/*.js, src/lib/utils.js, *)
(* src/unnamed/part_000 = lib/validations.js).                             *)
(*                                                                         *)
(* One request is followed from the entry of its handler to its response.  *)
(* The store (pg pool) is external: every pool.query call is recorded in   *)
(* `calls` with its statement and bound values, and is later resolved by   *)
(* the store with rows or with a failure.  A handler runs synchronously    *)
(* from one await to the next; each such stretch is one action.            *)
(***************************************************************************)
EXTENDS Integers, Sequences, FiniteSets, TLC

VARIABLES
  endpoint,   \* name of the handler serving the request, "none" before it arrives
  req,        \* the request: req.params.id and req.query.*
  pc,         \* where the handler is suspended: "idle", an await label, or "done"
  frame,      \* the handler's local variables that live across awaits
  calls,      \* pool.query calls issued so far, in issue order, with their outcome
  response,   \* responses sent on res (res.status(..).json(..) / res.json(..))
  pgIn,       \* inputs of the pagination calculator (PageSpec only)
  pgOut,      \* outputs of the pagination calculator (PageSpec only)
  store,      \* rows of the store that qualify for the request (WriterSpec only)
  db,         \* contents of the users, user_groups and sales tables (QuerySpec only)
  resultSets, \* result sets PostgreSQL computes over db (QuerySpec only)
  other       \* the second in-flight request, suspended (PairSpec only)

vars == <<endpoint, req, pc, frame, calls, response, pgIn, pgOut, store, db, resultSets, other>>

(***************************************************************************)
(* JavaScript values.  A value is a record [type, s, n]: strings carry s,  *)
(* numbers carry n, NaN/undefined/null carry neither.  An array (a query   *)
(* key given twice, e.g. ?sortOrder=asc&sortOrder=desc) carries in s the   *)
(* string String(array) would give.                                        *)
(***************************************************************************)
Undef == [type |-> "undefined", s |-> "", n |-> 0]
Null == [type |-> "null", s |-> "", n |-> 0]
NaN == [type |-> "nan", s |-> "", n |-> 0]
Str(s) == [type |-> "string", s |-> s, n |-> 0]
Arr(s) == [type |-> "array", s |-> s, n |-> 0]
Num(k) == [type |-> "number", s |-> "", n |-> k]

\* ToBoolean: undefined, null, NaN, 0 and "" are falsy; arrays are truthy.
Truthy(v) ==
  CASE v.type = "string" -> v.s # ""
    [] v.type = "number" -> v.n # 0
    [] v.type = "array" -> TRUE
    [] OTHER -> FALSE

\* a || b
OrElse(a, b) == IF Truthy(a) THEN a ELSE b

\* The decimal literals the model feeds to Number.parseInt / Number.parseFloat,
\* each with the integer it denotes ("7abc": the numeric prefix is parsed).
IntLiterals ==
  { <<"0", 0>>, <<"1", 1>>, <<"2", 2>>, <<"3", 3>>, <<"5", 5>>, <<"10", 10>>,
    <<"-2", -2>>, <<"-5", -5>>, <<"7abc", 7>>, <<"100", 100>> }

\* Number.parseInt(v, 10): the integer prefix of String(v), NaN when there is none.
ParseInt(v) ==
  IF v.type \in {"string", "array"} /\ \E p \in IntLiterals : p[1] = v.s
  THEN Num((CHOOSE p \in IntLiterals : p[1] = v.s)[2])
  ELSE IF v.type = "number" THEN v
  ELSE NaN

\* Number.parseFloat(v): on the literals above it agrees with parseInt.
ParseFloat(v) == ParseInt(v)

\* String.prototype.toLowerCase on the strings the model uses.
LowerPairs == { <<"ASC", "asc">>, <<"DESC", "desc">>, <<"Desc", "desc">>, <<"Asc", "asc">> }

ToLowerCase(s) ==
  IF \E p \in LowerPairs : p[1] = s
  THEN (CHOOSE p \in LowerPairs : p[1] = s)[2]
  ELSE s

\* new Date(v).getTime() is not NaN: the date strings the model uses that parse.
ValidDateStrings == {"2021-02-01", "2021-02-28", "2021-01-01", "2021-12-31"}

DateParses(v) == v.type \in {"string", "array"} /\ v.s \in ValidDateStrings

(***************************************************************************)
(* src/lib/utils.js                                                        *)
(***************************************************************************)
DefaultPage == 1
DefaultLimit == 100

\* Math.floor in place of Math.ceil.
FloorDiv(a, b) == IF b > 0 THEN a \div b ELSE (-a) \div (-b)

\* Math.ceil(a / b) for integers a and b, b # 0 (the quotient is a real).

CeilDiv(a, b) == IF b > 0 THEN -((-a) \div b) ELSE -(a \div (-b))

\* getPaginationParams(page, limit)
getPaginationParams(page, limit) ==
  LET parsedPage == OrElse(ParseInt(page), Num(DefaultPage)).n
      parsedLimit == OrElse(ParseInt(limit), Num(DefaultLimit)).n
      offset == (parsedPage - 1) * parsedLimit
  IN  [limit |-> parsedLimit, offset |-> offset, page |-> parsedPage]

\* A link `${baseUrl}?page=${p}&limit=${l}`, or null.
Link(baseUrl, p, l) == [null |-> FALSE, baseUrl |-> baseUrl, page |-> p, limit |-> l]
NullLink == [null |-> TRUE, baseUrl |-> "", page |-> 0, limit |-> 0]

\* formatPaginatedResponse(data, pagination, total, baseUrl, additionalMeta)
formatPaginatedResponse(data, pagination, total, baseUrl, additionalMeta) ==
  LET totalPages == CeilDiv(total, pagination.limit)
  IN  [ data |-> data,
        meta |-> [ pagination |-> [ page |-> pagination.page,
                                    limit |-> pagination.limit,
                                    total |-> total,
                                    pages |-> totalPages ],
                   filters |-> additionalMeta ],
        links |-> [ self |-> Link(baseUrl, pagination.page, pagination.limit),
                    first |-> Link(baseUrl, 1, pagination.limit),
                    last |-> Link(baseUrl, totalPages, pagination.limit),
                    next |-> IF pagination.page < totalPages
                             THEN Link(baseUrl, pagination.page + 1, pagination.limit)
                             ELSE NullLink,
                    prev |-> IF pagination.page > 1
                             THEN Link(baseUrl, pagination.page - 1, pagination.limit)
                             ELSE NullLink ] ]

\* A parseDate that hands every input through.
parseDateUnchecked(dateStr, fallback) == dateStr

\* parseDate(dateStr, fallback)

parseDate(dateStr, fallback) == IF DateParses(dateStr) THEN dateStr ELSE fallback

(***************************************************************************)
(* src/unnamed/part_000 (lib/validations.js)                               *)
(***************************************************************************)
\* validateSortColumn(sortBy, validColumns, defaultColumn): Array.includes compares
\* with SameValueZero, so only a string can be a member of validColumns.
validateSortColumn(sortBy, validColumns, defaultColumn) ==
  IF Truthy(sortBy) /\ sortBy.type = "string" /\ sortBy.s \in validColumns
  THEN sortBy.s
  ELSE defaultColumn

validOrders == {"asc", "desc"}

\* validateSortOrder(sortOrder, defaultOrder): a truthy value that is not a string
\* has no toLowerCase method, and calling it throws a TypeError.
validateSortOrder(sortOrder, defaultOrder) ==
  IF ~Truthy(sortOrder)
  THEN [threw |-> FALSE, value |-> defaultOrder]
  ELSE IF sortOrder.type # "string"
  THEN [threw |-> TRUE, value |-> ""]
  ELSE IF ToLowerCase(sortOrder.s) \in validOrders
  THEN [threw |-> FALSE, value |-> ToLowerCase(sortOrder.s)]
  ELSE [threw |-> FALSE, value |-> defaultOrder]

validIntervals == {"day", "week", "month", "quarter", "year"}

\* validateInterval(interval, defaultInterval)
validateInterval(interval, defaultInterval) ==
  IF Truthy(interval) /\ interval.type = "string" /\ interval.s \in validIntervals
  THEN interval.s
  ELSE defaultInterval

\* Table names as character sequences, so that the not-found message is derived
\* from the table name the way the code derives it.
TableUsers == <<"u", "s", "e", "r", "s">>
TableGroups == <<"g", "r", "o", "u", "p", "s">>

ToUpperCase(c) ==
  CASE c = "u" -> "U"
    [] c = "g" -> "G"
    [] OTHER -> c

\* `${table.charAt(0).toUpperCase() + table.slice(1, -1)} not found`
NotFoundMessage(table) ==
  <<ToUpperCase(table[1])>> \o SubSeq(table, 2, Len(table) - 1) \o <<" not found">>

\* The error validateResourceExists throws when the lookup returns no row.
NotFoundError(table) == [statusCode |-> 404, message |-> NotFoundMessage(table)]

\* An error without statusCode: a rejected pool.query, or a TypeError.
PlainError == [statusCode |-> 0, message |-> <<"error">>]

\* A lookup that never reports a missing row.
NoRowNever(rows) == FALSE

\* validateResourceExists: result.rows.length === 0

NoRow(rows) == rows = 0

(***************************************************************************)
(* Statements.  A statement text is kept structured: the tables of its     *)
(* FROM/JOIN list, the fragments of its WHERE clause with the placeholder  *)
(* numbers they carry, the DATE_TRUNC placeholder, the ORDER BY column and *)
(* direction spliced into the text, and the LIMIT/OFFSET placeholders      *)
(* (0: the clause is absent).                                              *)
(***************************************************************************)
Frag(col, op, ph) == [col |-> col, op |-> op, ph |-> ph, ph2 |-> 0]
Between(col, ph, ph2) == [col |-> col, op |-> "BETWEEN", ph |-> ph, ph2 |-> ph2]

\* order holds the ORDER BY column and direction a handler splices into the text from
\* its validated inputs; a statement whose ORDER BY is fixed text has NoOrder.
NoOrder == [prefix |-> "", col |-> "", dir |-> ""]
OrderBy(prefix, col, dir) == [prefix |-> prefix, col |-> col, dir |-> dir]

Stmt(name, tables, where, bucket, order, limitPh, offsetPh, extraPh) ==
  [ name |-> name, tables |-> tables, where |-> where, bucket |-> bucket,
    order |-> order, limitPh |-> limitPh, offsetPh |-> offsetPh, extraPh |-> extraPh ]

\* A bound value, with the name of the expression the code binds.
Bind(name, v) == [name |-> name, v |-> v]

\* The placeholder numbers that occur in a statement's text.
Placeholders(stmt) ==
  ({stmt.where[k].ph : k \in DOMAIN stmt.where}
     \cup {stmt.where[k].ph2 : k \in DOMAIN stmt.where}
     \cup {stmt.bucket, stmt.limitPh, stmt.offsetPh, stmt.extraPh}) \ {0}

\* The running state of a condition list: conditions, queryParams, paramIndex.
Builder(conditions, queryParams, paramIndex) ==
  [conditions |-> conditions, queryParams |-> queryParams, paramIndex |-> paramIndex]

\* A push that leaves paramIndex where it was.
AddConditionSameIndex(b, col, op, name, v) ==
  Builder(Append(b.conditions, Frag(col, op, b.paramIndex)),
          Append(b.queryParams, Bind(name, v)),
          b.paramIndex)

\* conditions.push(`<col> <op> $${paramIndex}`); queryParams.push(v); paramIndex++

AddCondition(b, col, op, name, v) ==
  Builder(Append(b.conditions, Frag(col, op, b.paramIndex)),
          Append(b.queryParams, Bind(name, v)),
          b.paramIndex + 1)

\* if (cond) { push ... }
AddIf(cond, b, col, op, name, v) == IF cond THEN AddCondition(b, col, op, name, v) ELSE b

\* queryParams.push(pagination.limit, pagination.offset)
PushPagination(queryParams, pagination) ==
  queryParams \o << Bind("pagination.limit", Num(pagination.limit)),
                    Bind("pagination.offset", Num(pagination.offset)) >>

\* The count statement bound with the listing's whole parameter list.
CountParamsNoSlice(queryParams, paramIndex) == queryParams

\* queryParams.slice(0, paramIndex - 1)

CountParams(queryParams, paramIndex) == SubSeq(queryParams, 1, paramIndex - 1)

(***************************************************************************)
(* Handler locals.  frame holds what a handler keeps across its awaits:    *)
(* conditions, queryParams, paramIndex, pagination, the validated sort     *)
(* column and order, and the resolved filters echoed in meta.filters.      *)
(***************************************************************************)
NoPagination == [limit |-> 0, offset |-> 0, page |-> 0]
NoFilters == [none |-> TRUE]

Frame(b, pagination, order, filters) ==
  [ conditions |-> b.conditions, queryParams |-> b.queryParams,
    paramIndex |-> b.paramIndex, pagination |-> pagination,
    order |-> order, filters |-> filters ]

EmptyFrame == Frame(Builder(<<>>, <<>>, 0), NoPagination, NoOrder, NoFilters)

\* The result of running a synchronous stretch that may throw before it issues
\* its statement: threw, or the frame it leaves.
Threw == [threw |-> TRUE, frame |-> EmptyFrame]
Built(f) == [threw |-> FALSE, frame |-> f]

JoinIf(cond, tables, t) == IF cond THEN Append(tables, t) ELSE tables

(***************************************************************************)
(* src/controllers/sales-controller.js: listSales                          *)
(***************************************************************************)
listSalesSortColumns == {"date", "amount", "user_id"}

\* lines 44-121: validation, conditions, queryParams up to the pagination push
listSalesBuild(q) ==
  LET pagination == getPaginationParams(q.page, q.limit)
      validStartDate == parseDate(q.startDate, Null)
      validEndDate == parseDate(q.endDate, Null)
      validSortBy == validateSortColumn(q.sortBy, listSalesSortColumns, "date")
      validSortOrder == validateSortOrder(q.sortOrder, "desc")
      validMinAmount == IF Truthy(q.minAmount) THEN ParseFloat(q.minAmount) ELSE Null
      validMaxAmount == IF Truthy(q.maxAmount) THEN ParseFloat(q.maxAmount) ELSE Null
      b0 == Builder(<<>>, <<>>, 1)
      b1 == AddIf(Truthy(validStartDate), b0, "s.date", ">=", "validStartDate", validStartDate)
      b2 == AddIf(Truthy(validEndDate), b1, "s.date", "<=", "validEndDate", validEndDate)
      b3 == AddIf(Truthy(q.userId), b2, "s.user_id", "=", "userId", q.userId)
      b4 == AddIf(validMinAmount.type # "null", b3, "s.amount", ">=", "validMinAmount", validMinAmount)
      b5 == AddIf(validMaxAmount.type # "null", b4, "s.amount", "<=", "validMaxAmount", validMaxAmount)
      b6 == AddIf(Truthy(q.groupId), b5, "ug.group_id", "=", "groupId", q.groupId)
      b7 == Builder(b6.conditions, PushPagination(b6.queryParams, pagination), b6.paramIndex)
  IN  IF validSortOrder.threw
      THEN Threw
      ELSE Built(Frame(b7, pagination, OrderBy("s.", validSortBy, validSortOrder.value),
                       [ startDate |-> validStartDate, endDate |-> validEndDate,
                         userId |-> q.userId, groupId |-> q.groupId,
                         minAmount |-> validMinAmount, maxAmount |-> validMaxAmount ]))

\* lines 91-121: the listing statement
listSalesQuery(f, q) ==
  Stmt("query",
       JoinIf(Truthy(q.groupId), <<"sales s", "users u">>, "user_groups ug"),
       f.conditions, 0, f.order, f.paramIndex, f.paramIndex + 1, 0)

\* A count statement that never joins user_groups.
listSalesCountQueryUnjoined(f, q) ==
  Stmt("countQuery", <<"sales s">>, f.conditions, 0, NoOrder, 0, 0, 0)

\* lines 126-137: the count statement

listSalesCountQuery(f, q) ==
  Stmt("countQuery",
       JoinIf(Truthy(q.groupId), <<"sales s">>, "user_groups ug"),
       f.conditions, 0, NoOrder, 0, 0, 0)

\* getSale, lines 182-195 and 204-213
getSaleQuery == Stmt("query", <<"sales s", "users u">>, <<Frag("s.id", "=", 1)>>, 0, NoOrder, 0, 0, 0)

getSaleGroupsQuery ==
  Stmt("groupsQuery", <<"groups g", "user_groups ug">>, <<Frag("ug.user_id", "=", 1)>>,
       0, NoOrder, 0, 0, 0)

(***************************************************************************)
(* validateResourceExists: `SELECT * FROM ${table} WHERE id = $1`, [id]    *)
(***************************************************************************)
ExistsQuery(table) == Stmt("exists", <<table>>, <<Frag("id", "=", 1)>>, 0, NoOrder, 0, 0, 0)

(***************************************************************************)
(* src/controllers/user-controller.js                                      *)
(***************************************************************************)
getUserSalesSortColumns == {"date", "amount"}

\* getUserSales, lines 41-83
getUserSalesBuild(userId, q) ==
  LET validStartDate == parseDate(q.startDate, Null)
      validEndDate == parseDate(q.endDate, Null)
      validSortBy == validateSortColumn(q.sortBy, getUserSalesSortColumns, "date")
      validSortOrder == validateSortOrder(q.sortOrder, "desc")
      b0 == Builder(<<Frag("user_id", "=", 1)>>, <<Bind("userId", userId)>>, 2)
      b1 == AddIf(Truthy(validStartDate), b0, "date", ">=", "validStartDate", validStartDate)
      b2 == AddIf(Truthy(validEndDate), b1, "date", "<=", "validEndDate", validEndDate)
      pagination == getPaginationParams(q.page, q.limit)
      b3 == Builder(b2.conditions, PushPagination(b2.queryParams, pagination), b2.paramIndex)
  IN  IF validSortOrder.threw
      THEN Threw
      ELSE Built(Frame(b3, pagination, OrderBy("", validSortBy, validSortOrder.value),
                       [startDate |-> validStartDate, endDate |-> validEndDate]))

\* getUserSales, lines 71-81 and 88-90
getUserSalesQuery(f) ==
  Stmt("query", <<"sales">>, f.conditions, 0, f.order, f.paramIndex, f.paramIndex + 1, 0)

getUserSalesCountQuery(f) == Stmt("countQuery", <<"sales">>, f.conditions, 0, NoOrder, 0, 0, 0)

\* getUserSalesSummary, lines 142-161
getUserSalesSummaryBuild(userId, q) ==
  LET validStartDate == parseDate(q.startDate, Null)
      validEndDate == parseDate(q.endDate, Null)
      b0 == Builder(<<Frag("user_id", "=", 1)>>, <<Bind("userId", userId)>>, 2)
      b1 == AddIf(Truthy(validStartDate), b0, "date", ">=", "validStartDate", validStartDate)
      b2 == AddIf(Truthy(validEndDate), b1, "date", "<=", "validEndDate", validEndDate)
  IN  Frame(b2, NoPagination, NoOrder, [startDate |-> validStartDate, endDate |-> validEndDate])

\* getUserSalesSummary, lines 164-174 and 179-192
getUserSalesSummaryQuery(f) == Stmt("summaryQuery", <<"sales">>, f.conditions, 0, NoOrder, 0, 0, 0)

getUserSalesMonthlyQuery(f) == Stmt("monthlyQuery", <<"sales">>, f.conditions, 0, NoOrder, 0, 0, 0)

DefaultStartDate == "2021-01-01"
DefaultEndDate == "2021-12-31"

\* getUserPerformance, lines 247-252 (getGroupPerformance, lines 366-371, is the same)
PerformanceBuild(q) ==
  LET validStartDate == parseDate(q.startDate, Str(DefaultStartDate))
      validEndDate == parseDate(q.endDate, Str(DefaultEndDate))
      validInterval == validateInterval(q.interval, "month")
  IN  Frame(Builder(<<>>, <<>>, 0), NoPagination, NoOrder,
            [ startDate |-> validStartDate, endDate |-> validEndDate,
              interval |-> Str(validInterval) ])

\* getUserPerformance, lines 255-277
getUserPerformanceTrendsQuery ==
  Stmt("trendsQuery", <<"sales">>,
       <<Frag("user_id", "=", 2), Between("date", 3, 4)>>, 1, NoOrder, 0, 0, 0)

getUserPerformanceTrendsParams(userId, f) ==
  << Bind("validInterval", f.filters.interval), Bind("userId", userId),
     Bind("validStartDate", f.filters.startDate), Bind("validEndDate", f.filters.endDate) >>

\* getUserPerformance, lines 280-298
getUserPerformanceSummaryQuery ==
  Stmt("summaryQuery", <<"sales">>,
       <<Frag("user_id", "=", 1), Between("date", 2, 3)>>, 0, NoOrder, 0, 0, 0)

\* getUserPerformance, lines 301-350 (the WHERE of user_sales; group_rankings binds
\* $2 and $3 again, and the final join binds $1 again)
getUserPerformanceRankingQuery ==
  Stmt("rankingQuery", <<"sales s", "user_groups ug", "groups g", "users u">>,
       <<Frag("s.user_id", "=", 1), Between("s.date", 2, 3)>>, 0, NoOrder, 0, 0, 0)

EntityDateParams(idName, id, f) ==
  << Bind(idName, id), Bind("validStartDate", f.filters.startDate),
     Bind("validEndDate", f.filters.endDate) >>

DefaultTopLimit == 10

performanceSortColumns == {"total_revenue", "average_revenue", "sales_count", "name"}

\* getAllUsersPerformance, lines 410-478: validation, conditions and queryParams of
\* the top-performers statement
getAllUsersPerformanceBuild(q) ==
  LET validStartDate == parseDate(q.startDate, Str(DefaultStartDate))
      validEndDate == parseDate(q.endDate, Str(DefaultEndDate))
      validInterval == IF Truthy(q.interval) /\ q.interval.type = "string"
                          /\ q.interval.s \in validIntervals
                       THEN q.interval.s ELSE "month"
      validSortBy == validateSortColumn(q.sortBy, performanceSortColumns, "total_revenue")
      validSortOrder == validateSortOrder(q.sortOrder, "desc")
      validLimit == IF Truthy(q.limit) THEN ParseInt(q.limit) ELSE Num(DefaultTopLimit)
      b0 == Builder(<<>>, << Bind("validStartDate", validStartDate),
                             Bind("validEndDate", validEndDate) >>, 3)
      b1 == AddIf(Truthy(q.role), b0, "u.role", "=", "role", q.role)
      b2 == AddIf(Truthy(q.groupId), b1, "ug.group_id", "=", "groupId", q.groupId)
      b3 == Builder(Append(b2.conditions, Between("s.date", 1, 2)),
                    Append(b2.queryParams, Bind("validLimit", validLimit)),
                    b2.paramIndex)
  IN  IF validSortOrder.threw
      THEN Threw
      ELSE Built(Frame(b3, NoPagination, OrderBy("", validSortBy, validSortOrder.value),
                       [ startDate |-> validStartDate, endDate |-> validEndDate,
                         interval |-> Str(validInterval), role |-> q.role,
                         groupId |-> q.groupId, limit |-> validLimit ]))

\* lines 438-476
topPerformersQuery(f, q) ==
  Stmt("topPerformersQuery",
       JoinIf(Truthy(q.groupId), <<"users u", "sales s">>, "user_groups ug"),
       f.conditions, 0, f.order, f.paramIndex, 0, 0)

\* line 495: the group fragment is the double-quoted string
\* " AND ug.group_id = $${role ? 5 : 4}".  Only the enclosing template literal is
\* interpolated, so the statement text holds the characters `$${role ? 5 : 4}`,
\* which name no position of the bound list.
NoPosition == -1

\* lines 481-500
RoleFrag(q) == IF Truthy(q.role) THEN <<Frag("u.role", "=", 4)>> ELSE <<>>

allUsersTrendsQuery(q) ==
  Stmt("trendsQuery",
       JoinIf(Truthy(q.groupId), <<"sales s", "users u">>, "user_groups ug"),
       <<Between("s.date", 2, 3)>>
         \o RoleFrag(q)
         \o (IF Truthy(q.groupId) THEN <<Frag("ug.group_id", "=", NoPosition)>> ELSE <<>>),
       1, NoOrder, 0, 0, 0)

\* lines 502-504
trendsParams(f, q) ==
  << Bind("validInterval", f.filters.interval), Bind("validStartDate", f.filters.startDate),
     Bind("validEndDate", f.filters.endDate) >>
    \o (IF Truthy(q.role) THEN <<Bind("role", q.role)>> ELSE <<>>)
    \o (IF Truthy(q.groupId) THEN <<Bind("groupId", q.groupId)>> ELSE <<>>)

\* lines 507-525
roleBreakdownQuery(q) ==
  Stmt("roleBreakdownQuery",
       JoinIf(Truthy(q.groupId), <<"users u", "sales s">>, "user_groups ug"),
       <<Between("s.date", 1, 2)>>
         \o (IF Truthy(q.groupId) THEN <<Frag("ug.group_id", "=", 3)>> ELSE <<>>),
       0, NoOrder, 0, 0, 0)

\* lines 527-528
roleParams(f, q) ==
  << Bind("validStartDate", f.filters.startDate), Bind("validEndDate", f.filters.endDate) >>
    \o (IF Truthy(q.groupId) THEN <<Bind("groupId", q.groupId)>> ELSE <<>>)

(***************************************************************************)
(* src/controllers/group-controller.js                                     *)
(***************************************************************************)
getGroupUsersSortColumns == {"name", "role"}

\* getGroupUsers, lines 41-74
getGroupUsersBuild(groupId, q) ==
  LET validSortBy == validateSortColumn(q.sortBy, getGroupUsersSortColumns, "name")
      validSortOrder == validateSortOrder(q.sortOrder, "asc")
      b0 == Builder(<<Frag("ug.group_id", "=", 1)>>, <<Bind("groupId", groupId)>>, 2)
      b1 == AddIf(Truthy(q.role), b0, "u.role", "=", "role", q.role)
      pagination == getPaginationParams(q.page, q.limit)
      b2 == Builder(b1.conditions, PushPagination(b1.queryParams, pagination), b1.paramIndex)
  IN  IF validSortOrder.threw
      THEN Threw
      ELSE Built(Frame(b2, pagination, OrderBy("u.", validSortBy, validSortOrder.value),
                       [role |-> q.role]))

\* getGroupUsers, lines 61-72 and 79-84
getGroupUsersQuery(f) ==
  Stmt("query", <<"users u", "user_groups ug">>, f.conditions, 0, f.order,
       f.paramIndex, f.paramIndex + 1, 0)

getGroupUsersCountQuery(f) ==
  Stmt("countQuery", <<"users u", "user_groups ug">>, f.conditions, 0, NoOrder, 0, 0, 0)

\* getGroupSales, lines 140-192
getGroupSalesBuild(groupId, q) ==
  LET validStartDate == parseDate(q.startDate, Null)
      validEndDate == parseDate(q.endDate, Null)
      validSortBy == validateSortColumn(q.sortBy, listSalesSortColumns, "date")
      validSortOrder == validateSortOrder(q.sortOrder, "desc")
      b0 == Builder(<<Frag("ug.group_id", "=", 1)>>, <<Bind("groupId", groupId)>>, 2)
      b1 == AddIf(Truthy(validStartDate), b0, "s.date", ">=", "validStartDate", validStartDate)
      b2 == AddIf(Truthy(validEndDate), b1, "s.date", "<=", "validEndDate", validEndDate)
      b3 == AddIf(Truthy(q.userId), b2, "s.user_id", "=", "userId", q.userId)
      pagination == getPaginationParams(q.page, q.limit)
      b4 == Builder(b3.conditions, PushPagination(b3.queryParams, pagination), b3.paramIndex)
  IN  IF validSortOrder.threw
      THEN Threw
      ELSE Built(Frame(b4, pagination, OrderBy("s.", validSortBy, validSortOrder.value),
                       [ startDate |-> validStartDate, endDate |-> validEndDate,
                         userId |-> q.userId ]))

\* getGroupSales, lines 176-190 and 197-202
getGroupSalesQuery(f) ==
  Stmt("query", <<"sales s", "user_groups ug", "users u">>, f.conditions, 0, f.order,
       f.paramIndex, f.paramIndex + 1, 0)

getGroupSalesCountQuery(f) ==
  Stmt("countQuery", <<"sales s", "user_groups ug">>, f.conditions, 0, NoOrder, 0, 0, 0)

\* getGroupSalesSummary, lines 255-274
getGroupSalesSummaryBuild(groupId, q) ==
  LET validStartDate == parseDate(q.startDate, Null)
      validEndDate == parseDate(q.endDate, Null)
      b0 == Builder(<<Frag("ug.group_id", "=", 1)>>, <<Bind("groupId", groupId)>>, 2)
      b1 == AddIf(Truthy(validStartDate), b0, "s.date", ">=", "validStartDate", validStartDate)
      b2 == AddIf(Truthy(validEndDate), b1, "s.date", "<=", "validEndDate", validEndDate)
  IN  Frame(b2, NoPagination, NoOrder, [startDate |-> validStartDate, endDate |-> validEndDate])

\* getGroupSalesSummary, lines 277-289 and 294-311
getGroupSalesSummaryQuery(f) ==
  Stmt("query", <<"sales s", "user_groups ug">>, f.conditions, 0, NoOrder, 0, 0, 0)

getGroupUserSalesQuery(f) ==
  Stmt("userSalesQuery", <<"sales s", "user_groups ug", "users u">>, f.conditions,
       0, NoOrder, 0, 0, 0)

\* getGroupPerformance, lines 374-398
getGroupPerformanceTrendsQuery ==
  Stmt("trendsQuery", <<"sales s", "user_groups ug">>,
       <<Frag("ug.group_id", "=", 2), Between("s.date", 3, 4)>>, 1, NoOrder, 0, 0, 0)

getGroupPerformanceTrendsParams(groupId, f) ==
  << Bind("validInterval", f.filters.interval), Bind("groupId", groupId),
     Bind("validStartDate", f.filters.startDate), Bind("validEndDate", f.filters.endDate) >>

\* getGroupPerformance, lines 401-428
getGroupTopPerformersQuery ==
  Stmt("topPerformersQuery", <<"sales s", "user_groups ug", "users u">>,
       <<Frag("ug.group_id", "=", 1), Between("s.date", 2, 3)>>, 0, NoOrder, 0, 0, 0)

\* getGroupPerformance, lines 431-465: $3 is the group id in the ORDER BY CASE
comparisonQuery ==
  Stmt("comparisonQuery", <<"groups g", "user_groups ug", "sales s">>,
       <<Between("s.date", 1, 2)>>, 0, NoOrder, 0, 0, 3)

comparisonParams(groupId, f) ==
  << Bind("validStartDate", f.filters.startDate), Bind("validEndDate", f.filters.endDate),
     Bind("groupId", groupId) >>

groupsPerformanceSortColumns ==
  {"total_revenue", "average_revenue", "sales_count", "active_users", "name"}

\* getAllGroupsPerformance, lines 520-534
getAllGroupsPerformanceBuild(q) ==
  LET validStartDate == parseDate(q.startDate, Str(DefaultStartDate))
      validEndDate == parseDate(q.endDate, Str(DefaultEndDate))
      validInterval == IF Truthy(q.interval) /\ q.interval.type = "string"
                          /\ q.interval.s \in validIntervals
                       THEN q.interval.s ELSE "month"
      validSortBy == validateSortColumn(q.sortBy, groupsPerformanceSortColumns, "total_revenue")
      validSortOrder == validateSortOrder(q.sortOrder, "desc")
      validLimit == IF Truthy(q.limit) THEN ParseInt(q.limit) ELSE Num(DefaultTopLimit)
  IN  IF validSortOrder.threw
      THEN Threw
      ELSE Built(Frame(Builder(<<>>, <<>>, 0), NoPagination,
                       OrderBy("", validSortBy, validSortOrder.value),
                       [ startDate |-> validStartDate, endDate |-> validEndDate,
                         interval |-> Str(validInterval), limit |-> validLimit ]))

\* lines 537-559 and 624
topGroupsQuery(f) ==
  Stmt("topGroupsQuery", <<"groups g", "user_groups ug", "sales s">>,
       <<Between("s.date", 1, 2)>>, 0, f.order, 3, 0, 0)

topGroupsParams(f) ==
  << Bind("validStartDate", f.filters.startDate), Bind("validEndDate", f.filters.endDate),
     Bind("validLimit", f.filters.limit) >>

\* lines 562-579 and 625
allGroupsTrendsQuery ==
  Stmt("trendsQuery", <<"sales s", "user_groups ug">>,
       <<Between("s.date", 2, 3)>>, 1, NoOrder, 0, 0, 0)

allGroupsTrendsParams(f) ==
  << Bind("validInterval", f.filters.interval), Bind("validStartDate", f.filters.startDate),
     Bind("validEndDate", f.filters.endDate) >>

\* lines 582-620 and 626
groupSizeQuery ==
  Stmt("groupSizeQuery", <<"groups g", "user_groups ug", "sales s">>,
       <<Between("s.date", 1, 2)>>, 0, NoOrder, 0, 0, 0)

groupSizeParams(f) ==
  << Bind("validStartDate", f.filters.startDate), Bind("validEndDate", f.filters.endDate) >>

(***************************************************************************)
(* Requests, store calls and responses                                     *)
(***************************************************************************)
NoQuery ==
  [ page |-> Undef, limit |-> Undef, startDate |-> Undef, endDate |-> Undef,
    userId |-> Undef, groupId |-> Undef, minAmount |-> Undef, maxAmount |-> Undef,
    sortBy |-> Undef, sortOrder |-> Undef, interval |-> Undef, role |-> Undef ]

Request(id, q) == [id |-> id, query |-> q]

\* A pool.query(stmt, params) call: pending until the store resolves it with n rows
\* (for a COUNT(*) statement n is the count it returns) or rejects it.
Call(stmt, params) == [stmt |-> stmt, params |-> params, status |-> "pending", n |-> 0]

Last == calls[Len(calls)]

\* res.status(status).json({ error: message })
ErrorResponse(status, message) ==
  [status |-> status, body |-> [kind |-> "error", error |-> message]]

\* res.json(body)
DataResponse(body) == [status |-> 200, body |-> [kind |-> "data", envelope |-> body]]

\* res.send(text)
SendResponse(text) == [status |-> 200, body |-> [kind |-> "text", text |-> text]]

InternalServerError == <<"Internal server error">>

EntityEndpoints ==
  { "getUserSales", "getUserSalesSummary", "getUserPerformance",
    "getGroupSales", "getGroupSalesSummary", "getGroupPerformance" }

\* The entity-scoped handlers the controllers export: those the routes of
\* server.js invoke, and getGroupUsers, which group-controller.js exports and no
\* route invokes.
EntityHandlers == EntityEndpoints \cup {"getGroupUsers"}

UserEndpoints == {"getUserSales", "getUserSalesSummary", "getUserPerformance"}

TableOf(ep) == IF ep \in UserEndpoints THEN TableUsers ELSE TableGroups

\* An id check that never rejects.
IdMissingNever(id) == FALSE

\* if (!userId) / if (!groupId) / if (!saleId)

IdMissing(id) == ~Truthy(id)

\* The 400 message of the handler's id check.
IdRequiredMessage(ep) ==
  IF ep \in UserEndpoints THEN <<"User ID is required">>
  ELSE IF ep = "getSale" THEN <<"Sale ID is required">>
  ELSE <<"Group ID is required">>

\* A catch block that passes the error's own message on.
catchLeaksMessage(ep, error) ==
  ErrorResponse(IF error.statusCode # 0 THEN error.statusCode ELSE 500, error.message)

\* The catch block of a handler: the entity-scoped handlers answer with the error's
\* statusCode and message when it has one; every other error is a 500.

catchResponse(ep, error) ==
  IF ep \in EntityHandlers /\ error.statusCode # 0
  THEN ErrorResponse(error.statusCode, error.message)
  ELSE ErrorResponse(500, InternalServerError)

\* Promise.race in place of Promise.all: settled by the first call that settles.
PromiseRace(S) ==
  IF \E i \in S : calls[i].status = "failed" THEN "rejected"
  ELSE IF \E i \in S : calls[i].status = "ok" THEN "fulfilled"
  ELSE "pending"

\* Promise.all over the calls at positions S: rejected as soon as one is rejected,
\* fulfilled once all are fulfilled, pending otherwise.
PromiseAll(S) ==
  IF \E i \in S : calls[i].status = "failed" THEN "rejected"
  ELSE IF \A i \in S : calls[i].status = "ok" THEN "fulfilled"
  ELSE "pending"

\* A handler that goes on without waiting for the call it issued.
ResumedUnawaited(ep, label) == endpoint = ep /\ pc = label

\* The handler named ep is suspended at label and the call it awaits has settled.

Resumed(ep, label) == endpoint = ep /\ pc = label /\ Last.status # "pending"

\* A catch block that logs the error and sends nothing.
RejectUnanswered(error) ==
  /\ pc' = "done"
  /\ UNCHANGED <<calls, frame, response>>

\* The awaited call was rejected (or the stretch threw): the catch block answers.

Reject(error) ==
  /\ response' = Append(response, catchResponse(endpoint, error))
  /\ pc' = "done"
  /\ UNCHANGED <<calls, frame>>

\* The handler issues its next statement and suspends at label.
Continue(stmt, params, label) ==
  /\ calls' = Append(calls, Call(stmt, params))
  /\ pc' = label
  /\ UNCHANGED <<response, frame>>

\* The handler answers with res.json(body).
Reply(body) ==
  /\ response' = Append(response, DataResponse(body))
  /\ pc' = "done"
  /\ UNCHANGED <<calls, frame>>

\* A handler of an entity-scoped endpoint starts: the id check, then the existence
\* lookup of validateResourceExists.
Enter(ep, id, q) ==
  /\ pc = "idle"
  /\ endpoint' = ep
  /\ req' = Request(id, q)
  /\ IF IdMissing(id)
     THEN /\ response' = Append(response, ErrorResponse(400, IdRequiredMessage(ep)))
          /\ pc' = "done"
          /\ UNCHANGED <<calls, frame>>
     ELSE /\ calls' = Append(calls, Call(ExistsQuery(TableOf(ep)), <<Bind("id", id)>>))
          /\ pc' = "exists"
          /\ UNCHANGED <<response, frame>>
  /\ UNCHANGED <<pgIn, pgOut, store, db, resultSets, other>>

\* validateResourceExists resumes: the lookup failed, found no row, or found one.
ExistsOutcome == 
  IF Last.status = "failed" THEN "failed"
  ELSE IF NoRow(Last.n) THEN "missing"
  ELSE "found"

\* The non-paginated envelope: data (row counts of the results, in the order of the
\* data object's keys, or under those keys), meta.filters and links.self.
Envelope(data, filters, self) ==
  [data |-> data, meta |-> [filters |-> filters], links |-> [self |-> self]]

(***************************************************************************)
(* Inputs                                                                  *)
(***************************************************************************)
MaxRows == 1

Ids == {Undef, Str("42")}
PageValues == {Undef, Str("2")}
LimitValues == {Undef, Str("10")}
DateValues == {Undef, Str("not-a-date"), Str("2021-02-01")}
EndDateValues == {Undef, Str("2021-02-28")}
IdFilterValues == {Undef, Str("7")}
AmountValues == {Undef, Str("abc"), Str("5")}
MaxAmountValues == {Undef, Str("10")}
SortByValues == {Undef, Str("amount"), Str("name"), Str("id; DROP TABLE sales")}
SortOrderValues == {Undef, Str("ASC"), Str("sideways"), Arr("asc,desc")}
IntervalValues == {Undef, Str("week"), Str("hour")}
RoleValues == {Undef, Str("manager")}
TopLimitValues == {Undef, Str("abc"), Str("3")}

listSalesQueries ==
  { [NoQuery EXCEPT !.page = pg, !.limit = lm, !.startDate = sd, !.endDate = ed,
                    !.userId = u, !.groupId = g, !.minAmount = mn, !.maxAmount = mx,
                    !.sortBy = sb, !.sortOrder = so] :
      pg \in PageValues, lm \in LimitValues, sd \in DateValues, ed \in EndDateValues,
      u \in IdFilterValues, g \in IdFilterValues, mn \in AmountValues,
      mx \in MaxAmountValues, sb \in SortByValues \ {Str("name")}, so \in SortOrderValues }

ListingQueries ==
  { [NoQuery EXCEPT !.page = pg, !.limit = lm, !.startDate = sd, !.endDate = ed,
                    !.sortBy = sb, !.sortOrder = so] :
      pg \in PageValues, lm \in LimitValues, sd \in DateValues, ed \in EndDateValues,
      sb \in SortByValues \ {Str("name")}, so \in SortOrderValues }

GroupSalesQueries == { [q EXCEPT !.userId = u] : q \in ListingQueries, u \in IdFilterValues }

GroupUsersQueries ==
  { [NoQuery EXCEPT !.page = pg, !.limit = lm, !.role = r, !.sortBy = sb, !.sortOrder = so] :
      pg \in PageValues, lm \in LimitValues, r \in RoleValues,
      sb \in SortByValues \ {Str("amount")}, so \in SortOrderValues }

SummaryQueries ==
  { [NoQuery EXCEPT !.startDate = sd, !.endDate = ed] : sd \in DateValues, ed \in DateValues }

PerformanceQueries ==
  { [q EXCEPT !.interval = iv] : q \in SummaryQueries, iv \in IntervalValues }

AllGroupsQueries ==
  { [NoQuery EXCEPT !.startDate = sd, !.endDate = ed, !.interval = iv, !.limit = lm,
                    !.sortBy = sb, !.sortOrder = so] :
      sd \in DateValues \ {Str("not-a-date")}, ed \in EndDateValues, iv \in IntervalValues,
      lm \in TopLimitValues, sb \in SortByValues \ {Str("amount")},
      so \in SortOrderValues \ {Str("sideways")} }

AllUsersQueries ==
  { [q EXCEPT !.role = r, !.groupId = g] :
      q \in AllGroupsQueries, r \in RoleValues, g \in IdFilterValues }

(***************************************************************************)
(* The store                                                               *)
(***************************************************************************)
\* The statement text parses: every placeholder in it is a position $k.  The store
\* rejects a text that does not (`$$` opens a dollar-quoted string that never ends).
Parses(stmt) == NoPosition \notin Placeholders(stmt)

\* A pending call resolves with rows.
StoreResolve ==
  /\ \E i \in DOMAIN calls, n \in 0..MaxRows :
       /\ calls[i].status = "pending"
       /\ Parses(calls[i].stmt)
       /\ calls' = [calls EXCEPT ![i].status = "ok", ![i].n = n]
  /\ UNCHANGED <<endpoint, req, pc, frame, response, pgIn, pgOut, store, db, resultSets, other>>

\* A pending call is rejected by the store.
StoreFail ==
  /\ \E i \in DOMAIN calls :
       /\ calls[i].status = "pending"
       /\ calls' = [calls EXCEPT ![i].status = "failed"]
  /\ UNCHANGED <<endpoint, req, pc, frame, response, pgIn, pgOut, store, db, resultSets, other>>

(***************************************************************************)
(* sales-controller.js                                                     *)
(***************************************************************************)
\* listSales, lines 29-123: up to the await of the listing statement
listSales ==
  /\ pc = "idle"
  /\ \E q \in listSalesQueries :
       LET r == listSalesBuild(q)
       IN  /\ endpoint' = "listSales"
           /\ req' = Request(Undef, q)
           /\ IF r.threw
              THEN /\ response' = Append(response, catchResponse("listSales", PlainError))
                   /\ pc' = "done"
                   /\ UNCHANGED <<calls, frame>>
              ELSE /\ frame' = r.frame
                   /\ calls' = Append(calls, Call(listSalesQuery(r.frame, q), r.frame.queryParams))
                   /\ pc' = "query"
                   /\ UNCHANGED response
  /\ UNCHANGED <<pgIn, pgOut, store, db, resultSets, other>>

\* listSales, lines 123-139: the listing resolved, the count statement is issued
listSalesCount ==
  /\ Resumed("listSales", "query")
  /\ IF Last.status = "failed"
     THEN Reject(PlainError)
     ELSE Continue(listSalesCountQuery(frame, req.query),
                   CountParams(frame.queryParams, frame.paramIndex), "count")
  /\ UNCHANGED <<endpoint, req, pgIn, pgOut, store, db, resultSets, other>>

\* The paginated answer of a listing handler: rows of the listing call, total of
\* the count call.
ListingReply(baseUrl) ==
  Reply(formatPaginatedResponse(calls[Len(calls) - 1].n, frame.pagination, Last.n,
                                baseUrl, frame.filters))

\* listSales, lines 139-161
listSalesRespond ==
  /\ Resumed("listSales", "count")
  /\ IF Last.status = "failed"
     THEN Reject(PlainError)
     ELSE ListingReply(<<"/api/metrics/sales">>)
  /\ UNCHANGED <<endpoint, req, pgIn, pgOut, store, db, resultSets, other>>

\* getSale, lines 173-197
getSale ==
  /\ pc = "idle"
  /\ \E id \in Ids :
       /\ endpoint' = "getSale"
       /\ req' = Request(id, NoQuery)
       /\ IF IdMissing(id)
          THEN /\ response' = Append(response, ErrorResponse(400, IdRequiredMessage("getSale")))
               /\ pc' = "done"
               /\ UNCHANGED calls
          ELSE /\ calls' = Append(calls, Call(getSaleQuery, <<Bind("saleId", id)>>))
               /\ pc' = "query"
               /\ UNCHANGED response
  /\ UNCHANGED <<frame, pgIn, pgOut, store, db, resultSets, other>>

\* A sale lookup that never reports a missing row.
SaleMissingNever(rows) == FALSE

\* getSale, line 199: result.rows.length === 0

SaleMissing(rows) == rows = 0

\* getSale, lines 197-215
getSaleGroups ==
  /\ Resumed("getSale", "query")
  /\ IF Last.status = "failed"
     THEN Reject(PlainError)
     ELSE IF SaleMissing(Last.n)
     THEN /\ response' = Append(response, ErrorResponse(404, <<"Sale not found">>))
          /\ pc' = "done"
          /\ UNCHANGED <<calls, frame>>
     ELSE Continue(getSaleGroupsQuery, <<Bind("result.rows[0].user_id", Str("user_id"))>>,
                   "groupsQuery")
  /\ UNCHANGED <<endpoint, req, pgIn, pgOut, store, db, resultSets, other>>

\* getSale, lines 215-231
getSaleRespond ==
  /\ Resumed("getSale", "groupsQuery")
  /\ IF Last.status = "failed"
     THEN Reject(PlainError)
     ELSE Reply(Envelope(<<calls[1].n, Last.n>>, NoFilters, <<"/api/metrics/sales/", req.id.s>>))
  /\ UNCHANGED <<endpoint, req, pgIn, pgOut, store, db, resultSets, other>>

(***************************************************************************)
(* user-controller.js                                                      *)
(***************************************************************************)
\* getUserSales, lines 29-39
getUserSales ==
  /\ pc = "idle"
  /\ \E id \in Ids, q \in ListingQueries : Enter("getUserSales", id, q)

\* A listing handler resumes after validateResourceExists: r is what its build
\* stretch gives, stmt the listing statement of the frame it leaves.
ListingAfterExists(table, r, stmt) ==
  CASE ExistsOutcome = "failed" -> Reject(PlainError)
    [] ExistsOutcome = "missing" -> Reject(NotFoundError(table))
    [] ExistsOutcome = "found" ->
         IF r.threw
         THEN Reject(PlainError)
         ELSE /\ frame' = r.frame
              /\ calls' = Append(calls, Call(stmt, r.frame.queryParams))
              /\ pc' = "query"
              /\ UNCHANGED response

\* getUserSales, lines 39-85
getUserSalesQueryStep ==
  /\ Resumed("getUserSales", "exists")
  /\ LET r == getUserSalesBuild(req.id, req.query)
     IN  ListingAfterExists(TableUsers, r, getUserSalesQuery(r.frame))
  /\ UNCHANGED <<endpoint, req, pgIn, pgOut, store, db, resultSets, other>>

\* getUserSales, lines 85-92
getUserSalesCount ==
  /\ Resumed("getUserSales", "query")
  /\ IF Last.status = "failed"
     THEN Reject(PlainError)
     ELSE Continue(getUserSalesCountQuery(frame),
                   CountParams(frame.queryParams, frame.paramIndex), "count")
  /\ UNCHANGED <<endpoint, req, pgIn, pgOut, store, db, resultSets, other>>

\* getUserSales, lines 92-115
getUserSalesRespond ==
  /\ Resumed("getUserSales", "count")
  /\ IF Last.status = "failed"
     THEN Reject(PlainError)
     ELSE ListingReply(<<"/api/metrics/users/", req.id.s, "/sales">>)
  /\ UNCHANGED <<endpoint, req, pgIn, pgOut, store, db, resultSets, other>>

\* A handler with a fixed frame resumes after validateResourceExists and issues
\* its first statement.
AfterExists(table, f, stmt, params, label) ==
  CASE ExistsOutcome = "failed" -> Reject(PlainError)
    [] ExistsOutcome = "missing" -> Reject(NotFoundError(table))
    [] ExistsOutcome = "found" ->
         /\ frame' = f
         /\ calls' = Append(calls, Call(stmt, params))
         /\ pc' = label
         /\ UNCHANGED response

\* A handler that goes on to the next statement whatever the awaited call gave.
ThenRegardless(stmt, params, label) == Continue(stmt, params, label)

\* A sequential await resumed: the catch block on failure, else the next statement.

Then(stmt, params, label) ==
  IF Last.status = "failed" THEN Reject(PlainError) ELSE Continue(stmt, params, label)

\* getUserSalesSummary, lines 130-140
getUserSalesSummary ==
  /\ pc = "idle"
  /\ \E id \in Ids, q \in SummaryQueries : Enter("getUserSalesSummary", id, q)

\* getUserSalesSummary, lines 140-176
getUserSalesSummaryQueryStep ==
  /\ Resumed("getUserSalesSummary", "exists")
  /\ LET f == getUserSalesSummaryBuild(req.id, req.query)
     IN  AfterExists(TableUsers, f, getUserSalesSummaryQuery(f), f.queryParams, "summaryQuery")
  /\ UNCHANGED <<endpoint, req, pgIn, pgOut, store, db, resultSets, other>>

\* getUserSalesSummary, lines 176-194
getUserSalesSummaryMonthly ==
  /\ Resumed("getUserSalesSummary", "summaryQuery")
  /\ Then(getUserSalesMonthlyQuery(frame), frame.queryParams, "monthlyQuery")
  /\ UNCHANGED <<endpoint, req, pgIn, pgOut, store, db, resultSets, other>>

\* getUserSalesSummary, lines 194-219
getUserSalesSummaryRespond ==
  /\ Resumed("getUserSalesSummary", "monthlyQuery")
  /\ IF Last.status = "failed"
     THEN Reject(PlainError)
     ELSE Reply(Envelope(<<calls[2].n, calls[3].n>>, frame.filters,
                         <<"/api/metrics/users/", req.id.s, "/sales/summary">>))
  /\ UNCHANGED <<endpoint, req, pgIn, pgOut, store, db, resultSets, other>>

\* getUserPerformance, lines 235-245
getUserPerformance ==
  /\ pc = "idle"
  /\ \E id \in Ids, q \in PerformanceQueries : Enter("getUserPerformance", id, q)

\* getUserPerformance, lines 245-277
getUserPerformanceTrends ==
  /\ Resumed("getUserPerformance", "exists")
  /\ LET f == PerformanceBuild(req.query)
     IN  AfterExists(TableUsers, f, getUserPerformanceTrendsQuery,
                     getUserPerformanceTrendsParams(req.id, f), "trendsQuery")
  /\ UNCHANGED <<endpoint, req, pgIn, pgOut, store, db, resultSets, other>>

\* getUserPerformance, lines 272-298
getUserPerformanceSummary ==
  /\ Resumed("getUserPerformance", "trendsQuery")
  /\ Then(getUserPerformanceSummaryQuery, EntityDateParams("userId", req.id, frame),
          "summaryQuery")
  /\ UNCHANGED <<endpoint, req, pgIn, pgOut, store, db, resultSets, other>>

\* getUserPerformance, lines 294-350
getUserPerformanceRanking ==
  /\ Resumed("getUserPerformance", "summaryQuery")
  /\ Then(getUserPerformanceRankingQuery, EntityDateParams("userId", req.id, frame),
          "rankingQuery")
  /\ UNCHANGED <<endpoint, req, pgIn, pgOut, store, db, resultSets, other>>

\* getUserPerformance, lines 346-378
getUserPerformanceRespond ==
  /\ Resumed("getUserPerformance", "rankingQuery")
  /\ IF Last.status = "failed"
     THEN Reject(PlainError)
     ELSE Reply(Envelope(<<calls[3].n, calls[2].n, calls[4].n>>, frame.filters,
                         <<"/api/metrics/users/", req.id.s, "/performance?interval=",
                           frame.filters.interval.s>>))
  /\ UNCHANGED <<endpoint, req, pgIn, pgOut, store, db, resultSets, other>>

\* The three calls of a Promise.all handler are calls 1, 2 and 3.
AllCalls == {1, 2, 3}

\* getAllUsersPerformance, lines 397-535: all three statements are issued before
\* the handler suspends
getAllUsersPerformance ==
  /\ pc = "idle"
  /\ \E q \in AllUsersQueries :
       LET r == getAllUsersPerformanceBuild(q)
           f == r.frame
       IN  /\ endpoint' = "getAllUsersPerformance"
           /\ req' = Request(Undef, q)
           /\ IF r.threw
              THEN /\ response' = Append(response,
                                         catchResponse("getAllUsersPerformance", PlainError))
                   /\ pc' = "done"
                   /\ UNCHANGED <<calls, frame>>
              ELSE /\ frame' = f
                   /\ calls' = calls \o << Call(topPerformersQuery(f, q), f.queryParams),
                                           Call(allUsersTrendsQuery(q), trendsParams(f, q)),
                                           Call(roleBreakdownQuery(q), roleParams(f, q)) >>
                   /\ pc' = "all"
                   /\ UNCHANGED response
  /\ UNCHANGED <<pgIn, pgOut, store, db, resultSets, other>>

\* getAllUsersPerformance, lines 531-561: Promise.all settled
getAllUsersPerformanceRespond ==
  /\ endpoint = "getAllUsersPerformance"
  /\ pc = "all"
  /\ PromiseAll(AllCalls) # "pending"
  /\ IF PromiseAll(AllCalls) = "rejected"
     THEN Reject(PlainError)
     ELSE Reply(Envelope(<<calls[1].n, calls[2].n, calls[3].n>>, frame.filters,
                         <<"/api/metrics/users/performance?interval=",
                           frame.filters.interval.s>>))
  /\ UNCHANGED <<endpoint, req, pgIn, pgOut, store, db, resultSets, other>>

(***************************************************************************)
(* group-controller.js                                                     *)
(***************************************************************************)
\* getGroupUsers, lines 29-39
getGroupUsers ==
  /\ pc = "idle"
  /\ \E id \in Ids, q \in GroupUsersQueries : Enter("getGroupUsers", id, q)

\* getGroupUsers, lines 39-76
getGroupUsersQueryStep ==
  /\ Resumed("getGroupUsers", "exists")
  /\ LET r == getGroupUsersBuild(req.id, req.query)
     IN  ListingAfterExists(TableGroups, r, getGroupUsersQuery(r.frame))
  /\ UNCHANGED <<endpoint, req, pgIn, pgOut, store, db, resultSets, other>>

\* getGroupUsers, lines 76-86
getGroupUsersCount ==
  /\ Resumed("getGroupUsers", "query")
  /\ IF Last.status = "failed"
     THEN Reject(PlainError)
     ELSE Continue(getGroupUsersCountQuery(frame),
                   CountParams(frame.queryParams, frame.paramIndex), "count")
  /\ UNCHANGED <<endpoint, req, pgIn, pgOut, store, db, resultSets, other>>

\* getGroupUsers, lines 86-108
getGroupUsersRespond ==
  /\ Resumed("getGroupUsers", "count")
  /\ IF Last.status = "failed"
     THEN Reject(PlainError)
     ELSE ListingReply(<<"/api/metrics/groups/", req.id.s, "/users">>)
  /\ UNCHANGED <<endpoint, req, pgIn, pgOut, store, db, resultSets, other>>

\* getGroupSales, lines 128-138
getGroupSales ==
  /\ pc = "idle"
  /\ \E id \in Ids, q \in GroupSalesQueries : Enter("getGroupSales", id, q)

\* getGroupSales, lines 138-194
getGroupSalesQueryStep ==
  /\ Resumed("getGroupSales", "exists")
  /\ LET r == getGroupSalesBuild(req.id, req.query)
     IN  ListingAfterExists(TableGroups, r, getGroupSalesQuery(r.frame))
  /\ UNCHANGED <<endpoint, req, pgIn, pgOut, store, db, resultSets, other>>

\* getGroupSales, lines 194-204
getGroupSalesCount ==
  /\ Resumed("getGroupSales", "query")
  /\ IF Last.status = "failed"
     THEN Reject(PlainError)
     ELSE Continue(getGroupSalesCountQuery(frame),
                   CountParams(frame.queryParams, frame.paramIndex), "count")
  /\ UNCHANGED <<endpoint, req, pgIn, pgOut, store, db, resultSets, other>>

\* getGroupSales, lines 204-228
getGroupSalesRespond ==
  /\ Resumed("getGroupSales", "count")
  /\ IF Last.status = "failed"
     THEN Reject(PlainError)
     ELSE ListingReply(<<"/api/metrics/groups/", req.id.s, "/sales">>)
  /\ UNCHANGED <<endpoint, req, pgIn, pgOut, store, db, resultSets, other>>

\* getGroupSalesSummary, lines 243-253
getGroupSalesSummary ==
  /\ pc = "idle"
  /\ \E id \in Ids, q \in SummaryQueries : Enter("getGroupSalesSummary", id, q)

\* getGroupSalesSummary, lines 253-291
getGroupSalesSummaryQueryStep ==
  /\ Resumed("getGroupSalesSummary", "exists")
  /\ LET f == getGroupSalesSummaryBuild(req.id, req.query)
     IN  AfterExists(TableGroups, f, getGroupSalesSummaryQuery(f), f.queryParams, "query")
  /\ UNCHANGED <<endpoint, req, pgIn, pgOut, store, db, resultSets, other>>

\* getGroupSalesSummary, lines 291-313
getGroupSalesSummaryUserSales ==
  /\ Resumed("getGroupSalesSummary", "query")
  /\ Then(getGroupUserSalesQuery(frame), frame.queryParams, "userSalesQuery")
  /\ UNCHANGED <<endpoint, req, pgIn, pgOut, store, db, resultSets, other>>

\* getGroupSalesSummary, lines 313-338
getGroupSalesSummaryRespond ==
  /\ Resumed("getGroupSalesSummary", "userSalesQuery")
  /\ IF Last.status = "failed"
     THEN Reject(PlainError)
     ELSE Reply(Envelope(<<calls[2].n, calls[3].n>>, frame.filters,
                         <<"/api/metrics/groups/", req.id.s, "/sales/summary">>))
  /\ UNCHANGED <<endpoint, req, pgIn, pgOut, store, db, resultSets, other>>

\* getGroupPerformance, lines 354-364
getGroupPerformance ==
  /\ pc = "idle"
  /\ \E id \in Ids, q \in PerformanceQueries : Enter("getGroupPerformance", id, q)

\* getGroupPerformance, lines 364-398
getGroupPerformanceTrends ==
  /\ Resumed("getGroupPerformance", "exists")
  /\ LET f == PerformanceBuild(req.query)
     IN  AfterExists(TableGroups, f, getGroupPerformanceTrendsQuery,
                     getGroupPerformanceTrendsParams(req.id, f), "trendsQuery")
  /\ UNCHANGED <<endpoint, req, pgIn, pgOut, store, db, resultSets, other>>

\* getGroupPerformance, lines 393-428
getGroupPerformanceTopPerformers ==
  /\ Resumed("getGroupPerformance", "trendsQuery")
  /\ Then(getGroupTopPerformersQuery, EntityDateParams("groupId", req.id, frame),
          "topPerformersQuery")
  /\ UNCHANGED <<endpoint, req, pgIn, pgOut, store, db, resultSets, other>>

\* getGroupPerformance, lines 424-465
getGroupPerformanceComparison ==
  /\ Resumed("getGroupPerformance", "topPerformersQuery")
  /\ Then(comparisonQuery, comparisonParams(req.id, frame), "comparisonQuery")
  /\ UNCHANGED <<endpoint, req, pgIn, pgOut, store, db, resultSets, other>>

\* getGroupPerformance, lines 461-492
getGroupPerformanceRespond ==
  /\ Resumed("getGroupPerformance", "comparisonQuery")
  /\ IF Last.status = "failed"
     THEN Reject(PlainError)
     ELSE Reply(Envelope([ trends |-> calls[2].n, top_performers |-> calls[3].n,
                           comparison |-> calls[4].n ], frame.filters,
                         <<"/api/metrics/groups/", req.id.s, "/performance?interval=",
                           frame.filters.interval.s>>))
  /\ UNCHANGED <<endpoint, req, pgIn, pgOut, store, db, resultSets, other>>

\* getAllGroupsPerformance, lines 509-627: all three statements are issued before
\* the handler suspends
getAllGroupsPerformance ==
  /\ pc = "idle"
  /\ \E q \in AllGroupsQueries :
       LET r == getAllGroupsPerformanceBuild(q)
           f == r.frame
       IN  /\ endpoint' = "getAllGroupsPerformance"
           /\ req' = Request(Undef, q)
           /\ IF r.threw
              THEN /\ response' = Append(response,
                                         catchResponse("getAllGroupsPerformance", PlainError))
                   /\ pc' = "done"
                   /\ UNCHANGED <<calls, frame>>
              ELSE /\ frame' = f
                   /\ calls' = calls \o << Call(topGroupsQuery(f), topGroupsParams(f)),
                                           Call(allGroupsTrendsQuery, allGroupsTrendsParams(f)),
                                           Call(groupSizeQuery, groupSizeParams(f)) >>
                   /\ pc' = "all"
                   /\ UNCHANGED response
  /\ UNCHANGED <<pgIn, pgOut, store, db, resultSets, other>>

\* getAllGroupsPerformance, lines 623-651: Promise.all settled
getAllGroupsPerformanceRespond ==
  /\ endpoint = "getAllGroupsPerformance"
  /\ pc = "all"
  /\ PromiseAll(AllCalls) # "pending"
  /\ IF PromiseAll(AllCalls) = "rejected"
     THEN Reject(PlainError)
     ELSE Reply(Envelope(<<calls[1].n, calls[2].n, calls[3].n>>, frame.filters,
                         <<"/api/metrics/groups/performance?interval=",
                           frame.filters.interval.s>>))
  /\ UNCHANGED <<endpoint, req, pgIn, pgOut, store, db, resultSets, other>>

(***************************************************************************)
(* server.js                                                               *)
(***************************************************************************)
\* line 34: app.get('/health', (req, res) => res.send('Hello World'))
health ==
  /\ pc = "idle"
  /\ endpoint' = "health"
  /\ response' = Append(response, SendResponse("Hello World"))
  /\ pc' = "done"
  /\ UNCHANGED <<req, frame, calls, pgIn, pgOut, store, db, resultSets, other>>

(***************************************************************************)
(* The request specification                                               *)
(***************************************************************************)
NoPgIn == [page |-> Undef, limit |-> Undef, total |-> 0]
NoPgOut == [done |-> FALSE]

\* The qualifying rows of the store: those present when the request arrived, and
\* those a concurrent writer has inserted since.
NoStore == [base |-> 0, inserted |-> 0]

NoDb == [member |-> <<>>, revenue |-> <<>>, orphans |-> 0]

NoResultSets == [done |-> FALSE, kind |-> "none"]

NoOther == [endpoint |-> "none"]

Init ==
  /\ endpoint = "none"
  /\ req = Request(Undef, NoQuery)
  /\ pc = "idle"
  /\ frame = EmptyFrame
  /\ calls = <<>>
  /\ response = <<>>
  /\ pgIn = NoPgIn
  /\ pgOut = NoPgOut
  /\ store = NoStore
  /\ db = NoDb
  /\ resultSets = NoResultSets
  /\ other = NoOther

Next ==
  \/ health
  \/ listSales \/ listSalesCount \/ listSalesRespond
  \/ getSale \/ getSaleGroups \/ getSaleRespond
  \/ getUserSales \/ getUserSalesQueryStep \/ getUserSalesCount \/ getUserSalesRespond
  \/ getUserSalesSummary \/ getUserSalesSummaryQueryStep
  \/ getUserSalesSummaryMonthly \/ getUserSalesSummaryRespond
  \/ getUserPerformance \/ getUserPerformanceTrends \/ getUserPerformanceSummary
  \/ getUserPerformanceRanking \/ getUserPerformanceRespond
  \/ getAllUsersPerformance \/ getAllUsersPerformanceRespond
  \/ getGroupSales \/ getGroupSalesQueryStep \/ getGroupSalesCount \/ getGroupSalesRespond
  \/ getGroupSalesSummary \/ getGroupSalesSummaryQueryStep
  \/ getGroupSalesSummaryUserSales \/ getGroupSalesSummaryRespond
  \/ getGroupPerformance \/ getGroupPerformanceTrends \/ getGroupPerformanceTopPerformers
  \/ getGroupPerformanceComparison \/ getGroupPerformanceRespond
  \/ getAllGroupsPerformance \/ getAllGroupsPerformanceRespond
  \/ StoreResolve \/ StoreFail

Spec == Init /\ [][Next]_vars

\* The handlers the controller modules export, called by any caller: the routes
\* of server.js, and direct callers of getGroupUsers, which no route invokes.
ExportsNext ==
  \/ Next
  \/ getGroupUsers \/ getGroupUsersQueryStep \/ getGroupUsersCount \/ getGroupUsersRespond

ExportsSpec == Init /\ [][ExportsNext]_vars

(***************************************************************************)
(* The pagination calculator on its own: getPaginationParams on raw page   *)
(* and limit values, then formatPaginatedResponse on a total.              *)
(***************************************************************************)
MaxTotal == 25

RawPageValues ==
  { Undef, Str(""), Str("abc"), Str("0"), Str("-2"), Str("1"), Str("2"), Str("3"),
    Str("7abc"), Arr("2") }
RawLimitValues ==
  { Undef, Str(""), Str("abc"), Str("0"), Str("-5"), Str("1"), Str("10"), Str("7abc") }

PageInit ==
  /\ endpoint = "none"
  /\ req = Request(Undef, NoQuery)
  /\ pc = "idle"
  /\ frame = EmptyFrame
  /\ calls = <<>>
  /\ response = <<>>
  /\ pgIn \in [page : RawPageValues, limit : RawLimitValues, total : 0..MaxTotal]
  /\ pgOut = NoPgOut
  /\ store = NoStore
  /\ db = NoDb
  /\ resultSets = NoResultSets
  /\ other = NoOther

\* getPaginationParams, then formatPaginatedResponse with the total of the count
Paginate ==
  /\ ~pgOut.done
  /\ LET pagination == getPaginationParams(pgIn.page, pgIn.limit)
     IN  pgOut' = [ done |-> TRUE, pagination |-> pagination,
                    envelope |-> formatPaginatedResponse(0, pagination, pgIn.total,
                                                         <<"/api/metrics/sales">>, NoFilters) ]
  /\ UNCHANGED <<endpoint, req, pc, frame, calls, response, pgIn, store, db, resultSets, other>>

PageNext == Paginate

PageSpec == PageInit /\ [][PageNext]_vars

(***************************************************************************)
(* Properties of the pagination calculator (PageSpec)                      *)
(***************************************************************************)
PgPagination == pgOut.envelope.meta.pagination
PgLinks == pgOut.envelope.links

\* p is Math.ceil(T / L) for L # 0: the least integer not below the quotient.
IsCeil(p, T, L) ==
  /\ L # 0
  /\ L > 0 => (p * L >= T /\ (p - 1) * L < T)
  /\ L < 0 => (p * L <= T /\ (p - 1) * L > T)

\* C4: for every total T and pagination (page, limit), formatPaginatedResponse
\* reports pages = ceil(T / limit), the next link is present iff page < pages, and
\* the prev link is present iff page > 1.
C4_PagesAndLinks ==
  pgOut.done =>
    /\ PgPagination.total = pgIn.total
    /\ IsCeil(PgPagination.pages, pgIn.total, PgPagination.limit)
    /\ (~PgLinks.next.null) <=> (PgPagination.page < PgPagination.pages)
    /\ (~PgLinks.prev.null) <=> (PgPagination.page > 1)
    /\ ~PgLinks.next.null => PgLinks.next.page = PgPagination.page + 1
    /\ ~PgLinks.prev.null => PgLinks.prev.page = PgPagination.page - 1

\* C4 witness: page 2, limit 10, total 25 gives pages 3 with next and prev present.
C4_Witness ==
  /\ pgOut.done
  /\ pgIn = [page |-> Str("2"), limit |-> Str("10"), total |-> 25]
  /\ PgPagination = [page |-> 2, limit |-> 10, total |-> 25, pages |-> 3]
  /\ ~PgLinks.next.null
  /\ ~PgLinks.prev.null

\* The parsed value of a raw input, or d when it parses to NaN or 0.
ParsedOr(raw, d) == IF Truthy(ParseInt(raw)) THEN ParseInt(raw).n ELSE d

Max(a, b) == IF a >= b THEN a ELSE b

\* C5: for every raw page and limit input, getPaginationParams returns
\* page = max(1, parsed page or 1), limit = parsed limit or 100, and
\* offset = (page - 1) * limit.
C5_ClampedPage ==
  pgOut.done =>
    /\ pgOut.pagination.page = Max(1, ParsedOr(pgIn.page, 1))
    /\ pgOut.pagination.limit = ParsedOr(pgIn.limit, 100)
    /\ pgOut.pagination.offset = (pgOut.pagination.page - 1) * pgOut.pagination.limit

\* C6: in every paginated response the first and last links are both present, and
\* when the total is 0 (pages = 0) the last link points at page 1.
C6_LastLinkOfEmptyResult ==
  pgOut.done =>
    /\ ~PgLinks.first.null
    /\ ~PgLinks.last.null
    /\ PgLinks.first.page = 1
    /\ pgIn.total = 0 => (PgPagination.pages = 0 /\ PgLinks.last.page = 1)

(***************************************************************************)
(* Properties of a request (Spec)                                          *)
(***************************************************************************)
ListingEndpoints == {"listSales", "getUserSales", "getGroupUsers", "getGroupSales"}
PaginationNames == {"pagination.limit", "pagination.offset"}

\* Call i is the count statement of a listing endpoint; call i - 1 is its listing.
IsCount(i) == i > 1 /\ calls[i].stmt.name = "countQuery"

\* C1: in every paginated listing endpoint and for every combination of optional
\* filters, the value list bound to the count statement is exactly the filter values
\* of the listing statement's WHERE clause in the same order (its length equals the
\* number of filter fragments) and never contains the limit or offset values
\* appended for pagination.
C1_CountParamsAreFilterParams ==
  \A i \in DOMAIN calls :
    IsCount(i) =>
      LET listing == calls[i - 1]
          count == calls[i]
      IN  /\ endpoint \in ListingEndpoints
          /\ listing.stmt.name = "query"
          /\ count.stmt.where = listing.stmt.where
          /\ Len(count.params) = Len(listing.stmt.where)
          /\ \A k \in DOMAIN listing.stmt.where :
               count.params[k] = listing.params[listing.stmt.where[k].ph]
          /\ \A k \in DOMAIN count.params : count.params[k].name \notin PaginationNames
          /\ \E k \in DOMAIN listing.params : listing.params[k].name \in PaginationNames

\* C1 witness: listSales with all six filters given has issued its count statement
\* with six values, the listing statement having eight.
C1_Witness ==
  /\ endpoint = "listSales"
  /\ Len(calls) = 2
  /\ IsCount(2)
  /\ Len(calls[1].params) = 8
  /\ Len(calls[2].params) = 6
  /\ calls[2].params[6].name = "groupId"

\* The message validateResourceExists is to give for each entity kind.
UserNotFound == <<"U", "s", "e", "r", " not found">>
GroupNotFound == <<"G", "r", "o", "u", "p", " not found">>

\* The existence lookup of an entity-scoped request resolved with no row.
EntityMissing ==
  /\ endpoint \in EntityHandlers
  /\ calls # <<>>
  /\ calls[1].status = "ok"
  /\ calls[1].n = 0

\* C2: a request to an entity-scoped endpoint whose id has no row in the store
\* responds with status 404 and body {error: '<Kind> not found'} naming the entity
\* kind, and the existence lookup is the only store call made for that request.
C2_MissingEntityIs404 ==
  EntityMissing =>
    /\ Len(calls) = 1
    /\ calls[1].stmt.name = "exists"
    /\ pc \in {"exists", "done"}
    /\ pc = "exists" => response = <<>>
    /\ pc = "done" =>
         response = << ErrorResponse(404, IF endpoint \in UserEndpoints
                                          THEN UserNotFound ELSE GroupNotFound) >>

\* C2 witness: a group performance request for a missing group was answered 404.
C2_Witness ==
  /\ EntityMissing
  /\ endpoint = "getGroupPerformance"
  /\ pc = "done"
  /\ response[1].status = 404
  /\ response[1].body.error = GroupNotFound

\* The sort columns each endpoint allows, and its default direction.
SortColumnsOf(ep) ==
  CASE ep \in {"listSales", "getGroupSales"} -> {"date", "amount", "user_id"}
    [] ep = "getUserSales" -> {"date", "amount"}
    [] ep = "getGroupUsers" -> {"name", "role"}
    [] ep = "getAllUsersPerformance" ->
         {"total_revenue", "average_revenue", "sales_count", "name"}
    [] ep = "getAllGroupsPerformance" ->
         {"total_revenue", "average_revenue", "sales_count", "active_users", "name"}
    [] OTHER -> {}

DefaultColumnOf(ep) ==
  CASE ep \in {"listSales", "getGroupSales", "getUserSales"} -> "date"
    [] ep = "getGroupUsers" -> "name"
    [] OTHER -> "total_revenue"

DefaultOrderOf(ep) == IF ep = "getGroupUsers" THEN "asc" ELSE "desc"

\* The sort and interval values of every issued statement are allow-listed, and an
\* out-of-list or absent input has been replaced by the endpoint's default.
SortAndIntervalAllowListed ==
  \A i \in DOMAIN calls :
    LET stmt == calls[i].stmt
        q == req.query
    IN  /\ stmt.order # NoOrder =>
              /\ stmt.order.col \in SortColumnsOf(endpoint)
              /\ stmt.order.dir \in {"asc", "desc"}
              /\ ~(q.sortBy.type = "string" /\ q.sortBy.s \in SortColumnsOf(endpoint))
                   => stmt.order.col = DefaultColumnOf(endpoint)
              /\ ~(q.sortOrder.type = "string" /\ ToLowerCase(q.sortOrder.s) \in {"asc", "desc"})
                   => stmt.order.dir = DefaultOrderOf(endpoint)
        /\ stmt.bucket # 0 =>
              /\ calls[i].params[stmt.bucket].v.s \in {"day", "week", "month", "quarter", "year"}
              /\ ~(q.interval.type = "string" /\ q.interval.s \in validIntervals)
                   => calls[i].params[stmt.bucket].v.s = "month"

\* No error response comes from an input alone: a 500 means a store call failed.
NoErrorWithoutStoreFailure ==
  (pc = "done" /\ response[1].status = 500) => \E i \in DOMAIN calls : calls[i].status = "failed"

\* C3: for every sortBy, sortOrder and interval input, the sort column and direction
\* spliced into statement text and the interval used for time bucketing are members
\* of the endpoint's allow-list; an out-of-list or absent input is replaced by the
\* endpoint's declared default and never produces an error response.
C3_AllowListNeverErrors == SortAndIntervalAllowListed /\ NoErrorWithoutStoreFailure

\* C7: a store failure at any store call of any endpoint makes the whole request
\* fail with status 500 and the opaque body {error: 'Internal server error'}; no
\* data envelope, partial or complete, is sent for that request.
C7_StoreFailureIs500 ==
  (\E i \in DOMAIN calls : calls[i].status = "failed") =>
    /\ \A k \in DOMAIN response :
         response[k] = [ status |-> 500,
                         body |-> [kind |-> "error", error |-> <<"Internal server error">>] ]
    /\ pc = "done" => Len(response) = 1
    /\ response = <<>> => pc \notin {"idle", "done"}

\* C7 witness: the listing of a user-sales request resolved with a row, its count
\* statement failed, and the request was answered 500.
C7_Witness ==
  /\ endpoint = "getUserSales"
  /\ pc = "done"
  /\ Len(calls) = 3
  /\ calls[2].status = "ok"
  /\ calls[2].n = 1
  /\ calls[3].status = "failed"
  /\ response[1].status = 500

SequentialPerformance == {"getGroupPerformance", "getUserPerformance"}

\* C8: the trend, top-performer and comparison statements of the single-group
\* performance endpoint, and the trend, summary and ranking statements of the
\* single-user performance endpoint, are issued concurrently: each is issued before
\* any of the others has resolved.
C8_AggregatesIssuedConcurrently ==
  (endpoint \in SequentialPerformance /\ \E i \in 2..Len(calls) : calls[i].status # "pending")
    => Len(calls) = 4

ConcurrentEndpoints == {"getAllUsersPerformance", "getAllGroupsPerformance"}

\* C9 as stated: in the endpoints that issue three statements concurrently, the
\* response (success or error) is sent only once all three store calls have resolved.
C9_RespondsAfterAllSettled ==
  (endpoint \in ConcurrentEndpoints /\ pc = "done" /\ calls # <<>>)
    => \A i \in DOMAIN calls : calls[i].status # "pending"

\* C9 amended: the success response is sent only once all three concurrently issued
\* store calls have resolved successfully; the error response is sent once one of
\* them has failed, whether or not the others have resolved.
C9_RespondsAfterAllOkOrFirstFailure ==
  (endpoint \in ConcurrentEndpoints /\ calls # <<>>) =>
    /\ Len(calls) = 3
    /\ pc \in {"all", "done"}
    /\ pc = "all" => response = <<>>
    /\ pc = "done" =>
         /\ Len(response) = 1
         /\ response[1].status \in {200, 500}
         /\ response[1].status = 200 => \A i \in DOMAIN calls : calls[i].status = "ok"
         /\ response[1].status = 500 => \E i \in DOMAIN calls : calls[i].status = "failed"

\* C9 witness: the error response was sent while another of the three calls was
\* still pending.
C9_Witness ==
  /\ endpoint = "getAllGroupsPerformance"
  /\ pc = "done"
  /\ Len(calls) = 3
  /\ Len(response) = 1
  /\ response[1].status = 500
  /\ calls[2].status = "failed"
  /\ calls[1].status = "pending"
  /\ calls[3].status = "ok"

\* Statement i restricts by the filter bound under `name` on column col.
RestrictsBy(i, col, name, v) ==
  \E k \in DOMAIN calls[i].stmt.where :
    LET fr == calls[i].stmt.where[k]
    IN  /\ fr.col = col
        /\ fr.ph \in DOMAIN calls[i].params
        /\ calls[i].params[fr.ph] = Bind(name, v)

\* Statement i binds both dates of its BETWEEN fragment to the resolved range.
BindsDates(i) ==
  \E k \in DOMAIN calls[i].stmt.where :
    LET fr == calls[i].stmt.where[k]
    IN  /\ fr.op = "BETWEEN"
        /\ calls[i].params[fr.ph] = Bind("validStartDate", frame.filters.startDate)
        /\ calls[i].params[fr.ph2] = Bind("validEndDate", frame.filters.endDate)

\* C10: in getAllUsersPerformance the top-performers, trends and role-breakdown
\* statements each restrict by role when a role filter is given and by group
\* membership when a groupId filter is given, and all three bind the same start
\* and end dates.
C10_SameScopeInAllStatements ==
  (endpoint = "getAllUsersPerformance" /\ calls # <<>>) =>
    \A i \in DOMAIN calls :
      /\ BindsDates(i)
      /\ Truthy(req.query.role) => RestrictsBy(i, "u.role", "role", req.query.role)
      /\ Truthy(req.query.groupId) =>
           RestrictsBy(i, "ug.group_id", "groupId", req.query.groupId)

(***************************************************************************)
(* Following the links of a response                                       *)
(***************************************************************************)
\* The listing handler's build stretch, by endpoint.
ListingBuildOf(ep, id, q) ==
  CASE ep = "listSales" -> listSalesBuild(q)
    [] ep = "getUserSales" -> getUserSalesBuild(id, q)
    [] ep = "getGroupUsers" -> getGroupUsersBuild(id, q)
    [] ep = "getGroupSales" -> getGroupSalesBuild(id, q)

\* `${n}` of a template literal, for the numbers that occur in links and filters.
NumberToString(n) ==
  CASE n = 100 -> "100" [] n = 10 -> "10" [] n = 5 -> "5" [] n = 3 -> "3"
    [] n = 2 -> "2" [] n = 1 -> "1" [] n = 0 -> "0" [] n = -2 -> "-2" [] n = -5 -> "-5"

\* A value echoed in meta.filters, as a client puts it back in the query string:
\* strings as they are, numbers in decimal, null (and NaN, which JSON writes as
\* null) left out.
EchoToQuery(v) ==
  CASE v.type = "string" -> v
    [] v.type = "number" -> Str(NumberToString(v.n))
    [] OTHER -> Undef

EchoedOr(filters, key) == IF key \in DOMAIN filters THEN EchoToQuery(filters[key]) ELSE Undef

\* The query parameters obtained from a paginated envelope: page and limit of
\* links.self, and every filter echoed in meta.filters.
Resubmitted(envelope) ==
  [ NoQuery EXCEPT
      !.page = Str(NumberToString(envelope.links.self.page)),
      !.limit = Str(NumberToString(envelope.links.self.limit)),
      !.startDate = EchoedOr(envelope.meta.filters, "startDate"),
      !.endDate = EchoedOr(envelope.meta.filters, "endDate"),
      !.userId = EchoedOr(envelope.meta.filters, "userId"),
      !.groupId = EchoedOr(envelope.meta.filters, "groupId"),
      !.minAmount = EchoedOr(envelope.meta.filters, "minAmount"),
      !.maxAmount = EchoedOr(envelope.meta.filters, "maxAmount"),
      !.role = EchoedOr(envelope.meta.filters, "role") ]

\* A listing request was answered with its paginated envelope.
ListingAnswered ==
  /\ endpoint \in ListingEndpoints
  /\ pc = "done"
  /\ Len(response) = 1
  /\ response[1].status = 200

\* C11: the filter values echoed in meta.filters and carried by links.self, when
\* resubmitted as the query parameters of the same endpoint, reproduce the same
\* filtering: the same WHERE fragments and bound values, the same sort and the
\* same page.
C11_ResubmittedFiltersReproduce ==
  ListingAnswered =>
    LET r == ListingBuildOf(endpoint, req.id, Resubmitted(response[1].body.envelope))
    IN  /\ ~r.threw
        /\ r.frame.conditions = frame.conditions
        /\ r.frame.queryParams = frame.queryParams
        /\ r.frame.order = frame.order
        /\ r.frame.pagination = frame.pagination

\* The raw input does not parse to a number.
NonNumeric(raw) == Truthy(raw) /\ ParseFloat(raw).type = "nan"

\* Call i has a WHERE fragment on column col with operator op.
HasFragment(i, col, op) ==
  \E k \in DOMAIN calls[i].stmt.where :
    calls[i].stmt.where[k].col = col /\ calls[i].stmt.where[k].op = op

\* C12: a malformed optional filter is replaced by its default before any statement
\* is bound: NaN is never bound to a statement, a non-numeric minAmount or maxAmount
\* in listSales adds no amount fragment, and a non-numeric limit in the all-users
\* and all-groups performance endpoints binds the default limit 10.
C12_MalformedFilterDefaulted ==
  \A i \in DOMAIN calls :
    /\ \A k \in DOMAIN calls[i].params : calls[i].params[k].v.type # "nan"
    /\ (endpoint = "listSales" /\ NonNumeric(req.query.minAmount))
         => ~HasFragment(i, "s.amount", ">=")
    /\ (endpoint = "listSales" /\ NonNumeric(req.query.maxAmount))
         => ~HasFragment(i, "s.amount", "<=")
    /\ (endpoint \in ConcurrentEndpoints /\ NonNumeric(req.query.limit))
         => \A k \in DOMAIN calls[i].params :
              calls[i].params[k].name = "validLimit"
                => calls[i].params[k].v = Num(DefaultTopLimit)

IdEndpoints == EntityHandlers \cup {"getSale"}

\* The message the claim gives for each kind of identifier.
IdRequiredOf(ep) ==
  CASE ep \in {"getUserSales", "getUserSalesSummary", "getUserPerformance"}
         -> <<"User ID is required">>
    [] ep \in {"getGroupUsers", "getGroupSales", "getGroupSalesSummary", "getGroupPerformance"}
         -> <<"Group ID is required">>
    [] ep = "getSale" -> <<"Sale ID is required">>

\* C13: a request to an endpoint that takes an id, whose path identifier is missing,
\* is answered 400 {error: '<Kind> ID is required'} and makes no store call at all.
C13_MissingIdIs400 ==
  (endpoint \in IdEndpoints /\ ~Truthy(req.id)) =>
    /\ pc = "done"
    /\ calls = <<>>
    /\ response = << [ status |-> 400,
                       body |-> [kind |-> "error", error |-> IdRequiredOf(endpoint)] ] >>

\* C13 witness: a group-sales request without an id was answered 400 with no call.
C13_Witness ==
  /\ endpoint = "getGroupSales"
  /\ req.id = Undef
  /\ calls = <<>>
  /\ Len(response) = 1
  /\ response[1].status = 400

\* A single-group performance request for an existing group whose date window holds
\* no sale of the group: every statement resolved, trends and top performers with
\* no row.
EmptyWindowAnswered ==
  /\ endpoint = "getGroupPerformance"
  /\ pc = "done"
  /\ Len(calls) = 4
  /\ \A i \in DOMAIN calls : calls[i].status = "ok"
  /\ calls[1].n > 0
  /\ calls[2].n = 0
  /\ calls[3].n = 0

\* C14: the single-group performance endpoint, for an existing group and a date
\* window containing no sales, responds 200 with a data object in which
\* data.summary.total_sales is 0 and data.trends is an empty sequence.
C14_EmptyWindowSummaryAndTrends ==
  EmptyWindowAnswered =>
    /\ Len(response) = 1
    /\ response[1].status = 200
    /\ response[1].body.kind = "data"
    /\ response[1].body.envelope.data.trends = 0
    /\ "summary" \in DOMAIN response[1].body.envelope.data
    /\ response[1].body.envelope.data.summary.total_sales = 0

\* The sale lookup of a getSale request resolved with no row.
SaleNotFound ==
  /\ endpoint = "getSale"
  /\ calls # <<>>
  /\ calls[1].status = "ok"
  /\ calls[1].n = 0

\* C15: getSale for an id with no matching row responds 404 {error: 'Sale not found'}
\* and the dependent group-membership statement is never issued: exactly one store
\* call is made.
C15_MissingSaleIs404 ==
  SaleNotFound =>
    /\ Len(calls) = 1
    /\ calls[1].stmt.name = "query"
    /\ pc \in {"query", "done"}
    /\ pc = "query" => response = <<>>
    /\ pc = "done" =>
         response = << [ status |-> 404,
                         body |-> [kind |-> "error", error |-> <<"Sale not found">>] ] >>

\* C15 witness: a getSale request whose lookup found no row was answered 404.
C15_Witness ==
  /\ SaleNotFound
  /\ pc = "done"
  /\ Len(response) = 1
  /\ response[1].status = 404

DateRangeEndpoints ==
  {"getUserPerformance", "getGroupPerformance", "getAllUsersPerformance",
   "getAllGroupsPerformance"}
DateFilterEndpoints ==
  {"listSales", "getUserSales", "getGroupSales", "getUserSalesSummary",
   "getGroupSalesSummary"}
DateColumns == {"date", "s.date"}

\* The raw input is a date string that parses.
ValidDate(raw) == raw.type = "string" /\ raw.s \in ValidDateStrings

\* Call i binds v under name exactly once.
BindsOnce(i, name, v) ==
  /\ \E k \in DOMAIN calls[i].params : calls[i].params[k] = [name |-> name, v |-> v]
  /\ Cardinality({k \in DOMAIN calls[i].params : calls[i].params[k].name = name}) = 1

\* Call i has a date fragment with operator op whose placeholder holds v under name.
DateFragmentBinds(i, op, name, v) ==
  \E k \in DOMAIN calls[i].stmt.where :
    LET fr == calls[i].stmt.where[k]
    IN  /\ fr.col \in DateColumns
        /\ fr.op = op
        /\ fr.ph \in DOMAIN calls[i].params
        /\ calls[i].params[fr.ph] = [name |-> name, v |-> v]

\* Call i has no date fragment with operator op and binds nothing under name.
NoDateFragment(i, op, name) ==
  /\ \A k \in DOMAIN calls[i].stmt.where :
       ~(calls[i].stmt.where[k].col \in DateColumns /\ calls[i].stmt.where[k].op = op)
  /\ \A k \in DOMAIN calls[i].params : calls[i].params[k].name # name

\* C16: in the date-range (performance) endpoints an absent or invalid startDate /
\* endDate is bound as 2021-01-01 / 2021-12-31; in the listing and summary
\* endpoints an absent or invalid date adds no date fragment and no bound value; a
\* valid date string is bound unchanged.
C16_DateFiltersResolvePerFamily ==
  \A i \in DOMAIN calls :
    calls[i].stmt.name # "exists" =>
      /\ endpoint \in DateRangeEndpoints =>
           /\ BindsOnce(i, "validStartDate",
                        IF ValidDate(req.query.startDate) THEN req.query.startDate
                        ELSE Str("2021-01-01"))
           /\ BindsOnce(i, "validEndDate",
                        IF ValidDate(req.query.endDate) THEN req.query.endDate
                        ELSE Str("2021-12-31"))
      /\ endpoint \in DateFilterEndpoints =>
           /\ IF ValidDate(req.query.startDate)
              THEN DateFragmentBinds(i, ">=", "validStartDate", req.query.startDate)
              ELSE NoDateFragment(i, ">=", "validStartDate")
           /\ IF ValidDate(req.query.endDate)
              THEN DateFragmentBinds(i, "<=", "validEndDate", req.query.endDate)
              ELSE NoDateFragment(i, "<=", "validEndDate")

\* C16 witness: a user performance request with an invalid startDate and a valid
\* endDate bound the default start and the given end.
C16_Witness ==
  /\ endpoint = "getUserPerformance"
  /\ req.query.startDate = Str("not-a-date")
  /\ req.query.endDate = Str("2021-02-01")
  /\ Len(calls) = 2
  /\ calls[2].params[3] = [name |-> "validStartDate", v |-> Str("2021-01-01")]
  /\ calls[2].params[4] = [name |-> "validEndDate", v |-> Str("2021-02-01")]

\* C17: in every paginated listing endpoint the count statement is issued only after
\* the listing statement has resolved successfully; if the listing statement fails
\* (or is still pending) no count statement has been issued.
C17_CountAfterListingResolved ==
  endpoint \in ListingEndpoints =>
    \A i \in DOMAIN calls :
      /\ calls[i].stmt.name = "countQuery" =>
           /\ i > 1
           /\ calls[i - 1].stmt.name = "query"
           /\ calls[i - 1].status = "ok"
      /\ (calls[i].stmt.name = "query" /\ calls[i].status # "ok") =>
           /\ i = Len(calls)
           /\ \A j \in DOMAIN calls : calls[j].stmt.name # "countQuery"

\* C17 witness: the group-users listing resolved successfully and its count statement
\* is in flight.
C17_Witness ==
  /\ endpoint = "getGroupUsers"
  /\ Len(calls) = 3
  /\ calls[2].stmt.name = "query"
  /\ calls[2].status = "ok"
  /\ calls[3].stmt.name = "countQuery"
  /\ calls[3].status = "pending"

\* The name of the value a filter fragment is written for.
FilterNameOf(fr) ==
  CASE fr.col \in DateColumns /\ fr.op = ">=" -> "validStartDate"
    [] fr.col \in DateColumns /\ fr.op = "<=" -> "validEndDate"
    [] fr.col \in {"user_id", "s.user_id"} -> "userId"
    [] fr.col = "s.amount" /\ fr.op = ">=" -> "validMinAmount"
    [] fr.col = "s.amount" /\ fr.op = "<=" -> "validMaxAmount"
    [] fr.col = "ug.group_id" -> "groupId"
    [] fr.col = "u.role" -> "role"
    [] OTHER -> "none"

\* Call i is the listing statement of a listing endpoint.
IsListing(i) == endpoint \in ListingEndpoints /\ calls[i].stmt.name = "query"

\* The placeholders of call i are exactly $1..$n for its n bound values.
Contiguous(i) == Placeholders(calls[i].stmt) = 1..Len(calls[i].params)

\* C18: in every listing statement, for every combination of optional filters, the
\* placeholders in the text are exactly $1..$n with no gap or repeat across
\* fragments, the k-th placeholder's bound value sits at position k (also when the
\* membership join was added), and LIMIT and OFFSET use $(f+1) and $(f+2) where f
\* is the number of filter values.  The top-performers statement of
\* getAllUsersPerformance has $1 and $2 in its date fragment and LIMIT at $(f+1).
C18_PlaceholdersContiguous ==
  \A i \in DOMAIN calls :
    LET stmt == calls[i].stmt
        params == calls[i].params
        f == Len(stmt.where)
    IN  /\ IsListing(i) =>
             /\ Contiguous(i)
             /\ Len(params) = f + 2
             /\ \A k \in 1..f :
                  /\ stmt.where[k].ph = k
                  /\ stmt.where[k].ph2 = 0
                  /\ params[k].name = FilterNameOf(stmt.where[k])
             /\ stmt.limitPh = f + 1
             /\ stmt.offsetPh = f + 2
             /\ params[f + 1].name = "pagination.limit"
             /\ params[f + 2].name = "pagination.offset"
        /\ stmt.name = "topPerformersQuery" /\ endpoint = "getAllUsersPerformance" =>
             /\ Contiguous(i)
             /\ Len(params) = f + 2
             /\ stmt.where[f] = [col |-> "s.date", op |-> "BETWEEN", ph |-> 1, ph2 |-> 2]
             /\ params[1].name = "validStartDate"
             /\ params[2].name = "validEndDate"
             /\ \A k \in 1..(f - 1) :
                  /\ stmt.where[k].ph = k + 2
                  /\ params[k + 2].name = FilterNameOf(stmt.where[k])
             /\ stmt.limitPh = f + 2
             /\ params[f + 2].name = "validLimit"

\* C18 witness: listSales with all six filters, the membership join included, has
\* issued its listing statement with LIMIT $7 OFFSET $8.
C18_Witness ==
  /\ endpoint = "listSales"
  /\ Len(calls) = 1
  /\ Len(calls[1].stmt.tables) = 3
  /\ Len(calls[1].stmt.where) = 6
  /\ calls[1].stmt.where[6] = [col |-> "ug.group_id", op |-> "=", ph |-> 6, ph2 |-> 0]
  /\ calls[1].stmt.limitPh = 7
  /\ calls[1].stmt.offsetPh = 8

\* Call i holds a fragment on column col at placeholder ph, and position ph of the
\* bound list holds the value v under name.
FragmentAt(i, col, ph, name, v) ==
  /\ \E k \in DOMAIN calls[i].stmt.where :
       calls[i].stmt.where[k] = [col |-> col, op |-> "=", ph |-> ph, ph2 |-> 0]
  /\ ph \in DOMAIN calls[i].params
  /\ calls[i].params[ph] = [name |-> name, v |-> v]

\* The trends statement of getAllUsersPerformance without the group fragment: the
\* interval at 1, the dates at 2 and 3, the role at 4 when a role is given.
TrendsPositionsBeforeGroup ==
  /\ calls[2].stmt.name = "trendsQuery"
  /\ calls[2].stmt.bucket = 1
  /\ calls[2].params[1].name = "validInterval"
  /\ calls[2].stmt.where[1] = [col |-> "s.date", op |-> "BETWEEN", ph |-> 2, ph2 |-> 3]
  /\ calls[2].params[2].name = "validStartDate"
  /\ calls[2].params[3].name = "validEndDate"
  /\ Truthy(req.query.role) => FragmentAt(2, "u.role", 4, "role", req.query.role)

\* C19: in getAllUsersPerformance, for each combination of role and groupId being
\* present or absent, every placeholder of the trends statement is a valid position
\* into trendsParams and refers to the position that holds the value of its filter
\* (interval at 1, dates at 2 and 3, role at 4, groupId at 5 when role is present
\* and 4 otherwise), and the number of distinct placeholders equals the length of
\* trendsParams.
C19_TrendsPlaceholdersMatchParams ==
  (endpoint = "getAllUsersPerformance" /\ calls # <<>>) =>
    /\ TrendsPositionsBeforeGroup
    /\ Truthy(req.query.groupId) =>
         FragmentAt(2, "ug.group_id", IF Truthy(req.query.role) THEN 5 ELSE 4,
                    "groupId", req.query.groupId)
    /\ Placeholders(calls[2].stmt) \subseteq DOMAIN calls[2].params
    /\ Cardinality(Placeholders(calls[2].stmt)) = Len(calls[2].params)

(***************************************************************************)
(* A listing request beside a concurrent writer.  The handlers are those   *)
(* of Spec; the store answers a listing or count statement from the rows   *)
(* that qualify when the statement runs.                                   *)
(***************************************************************************)
MaxStored == 3

\* What a statement would see inside a transaction opened when the request arrived.
VisibleInTransaction(s) == s.base

\* pool.query(text, values) on the shared pool: every statement is sent on its own,
\* without BEGIN/COMMIT around the statements of a request, and sees the rows
\* committed when it runs.

Visible(s) == s.base + s.inserted

\* The rows LIMIT limit OFFSET offset returns from total qualifying rows
\* (limit and offset not negative).
PageRows(total, pagination) ==
  LET rest == total - pagination.offset
  IN  IF rest <= 0 THEN 0
      ELSE IF rest < pagination.limit THEN rest
      ELSE pagination.limit

\* The result of a listing or count statement on store content s: n is the number
\* of rows of the page, or the count.
Observed(call, s) ==
  IF call.stmt.name = "countQuery"
  THEN Visible(s)
  ELSE PageRows(Visible(s), frame.pagination)

\* A pending call resolves: the existence lookup with one row or none, a listing or
\* count statement with what it observes.
StoreRead ==
  /\ \E i \in DOMAIN calls :
       /\ calls[i].status = "pending"
       /\ Parses(calls[i].stmt)
       /\ IF calls[i].stmt.name = "exists"
          THEN \E n \in 0..1 : calls' = [calls EXCEPT ![i].status = "ok", ![i].n = n]
          ELSE calls' = [calls EXCEPT ![i].status = "ok", ![i].n = Observed(calls[i], store)]
  /\ UNCHANGED <<endpoint, req, pc, frame, response, pgIn, pgOut, store, db, resultSets, other>>

\* Another client of the store inserts a qualifying row while the request is served.
Writer ==
  /\ pc \notin {"idle", "done"}
  /\ store.base + store.inserted < MaxStored
  /\ store' = [store EXCEPT !.inserted = @ + 1]
  /\ UNCHANGED <<endpoint, req, pc, frame, calls, response, pgIn, pgOut, db, resultSets, other>>

WriterInit ==
  /\ endpoint = "none"
  /\ req = Request(Undef, NoQuery)
  /\ pc = "idle"
  /\ frame = EmptyFrame
  /\ calls = <<>>
  /\ response = <<>>
  /\ pgIn = NoPgIn
  /\ pgOut = NoPgOut
  /\ store \in {[base |-> b, inserted |-> 0] : b \in 0..MaxStored}
  /\ db = NoDb
  /\ resultSets = NoResultSets
  /\ other = NoOther

WriterNext ==
  \/ listSales \/ listSalesCount \/ listSalesRespond
  \/ getUserSales \/ getUserSalesQueryStep \/ getUserSalesCount \/ getUserSalesRespond
  \/ StoreRead \/ StoreFail \/ Writer

WriterSpec == WriterInit /\ [][WriterNext]_vars

\* C20: no transaction spans the statements of one request: each listing or count
\* statement observes the rows that qualify when it runs, a row inserted by a
\* concurrent writer between the two included, so the returned total can differ
\* from the number of rows that qualified when the listing statement ran.
C20_StatementsObserveCurrentRows ==
  [][ \A i \in DOMAIN calls :
        ( /\ calls[i].stmt.name \in {"query", "countQuery"}
          /\ calls[i].status = "pending"
          /\ calls'[i].status = "ok" )
        => calls'[i].n = IF calls[i].stmt.name = "countQuery"
                         THEN store.base + store.inserted
                         ELSE PageRows(store.base + store.inserted, frame.pagination)
    ]_vars

\* C20 witness: a user-sales listing on page 1 with the default limit returned the
\* one row that qualified when it ran, a row was inserted, and the response reports
\* total 2.
C20_Witness ==
  /\ endpoint = "getUserSales"
  /\ pc = "done"
  /\ Len(response) = 1
  /\ response[1].status = 200
  /\ req.query.page = Undef
  /\ req.query.limit = Undef
  /\ store = [base |-> 1, inserted |-> 1]
  /\ response[1].body.envelope.data = 1
  /\ response[1].body.envelope.meta.pagination.total = 2

(***************************************************************************)
(* The tables the statements run over.  A database holds, for every user,  *)
(* the groups the user is a member of (user_groups) and the user's sales   *)
(* inside the requested window: revenue[u] rows of amount 1, so that       *)
(* the sum of their amounts and their count are both revenue[u].  orphans is   *)
(* the number of sales rows whose user_id has no row in users.             *)
(***************************************************************************)
MaxAmount == 2

MaxOrphans == 1

Users == {"u1", "u2", "u3"}

Groups == {"g1", "g2"}

Databases ==
  [member : [Users -> SUBSET Groups],
   revenue : [Users -> 0..MaxAmount],
   orphans : 0..MaxOrphans]

\* sales s JOIN user_groups ug ... JOIN users u, GROUP BY g.id, u.id: the
\* users that have a row in the partition of group g.
Ranked(d, g) == {u \in Users : g \in d.member[u] /\ d.revenue[u] > 0}

\* WITH user_sales AS (... WHERE s.user_id = $1 ... GROUP BY g.id, g.name)
user_sales(d, userId) ==
  {[group_id |-> g, user_revenue |-> d.revenue[userId]] :
     g \in {h \in Groups : userId \in Ranked(d, h)}}

\* group_rankings AS (... GROUP BY g.id, g.name, u.id, u.name), with
\* RANK() OVER (PARTITION BY g.id ORDER BY SUM(s.amount) DESC): one more than
\* the number of rows of the partition that sort before the row.
group_rankings(d) ==
  UNION {{[group_id |-> g, user_id |-> u, revenue |-> d.revenue[u],
           rank |-> 1 + Cardinality({v \in Ranked(d, g) : d.revenue[v] > d.revenue[u]})] :
            u \in Ranked(d, g)} : g \in Groups}

\* SELECT us.group_id, us.user_revenue, gr.rank,
\*        COUNT OVER (PARTITION BY us.group_id) AS total_users
\* FROM user_sales us JOIN group_rankings gr
\*   ON us.group_id = gr.group_id AND gr.user_id = $1
\* The window function counts rows of the joined result.
rankingRows(d, userId) ==
  LET joined == {j \in [us : user_sales(d, userId), gr : group_rankings(d)] :
                   j.us.group_id = j.gr.group_id /\ j.gr.user_id = userId}
  IN {[group_id |-> j.us.group_id,
       user_revenue |-> j.us.user_revenue,
       rank |-> j.gr.rank,
       total_users |-> Cardinality({k \in joined : k.us.group_id = j.us.group_id})] :
        j \in joined}

\* const rankingResult = await pool.query(rankingQuery, [userId, ...])
RunRanking ==
  /\ resultSets = NoResultSets
  /\ \E userId \in Users :
       resultSets' = [done |-> TRUE, kind |-> "ranking", userId |-> userId,
                      result |-> rankingRows(db, userId)]
  /\ UNCHANGED <<endpoint, req, pc, frame, calls, response, pgIn, pgOut, store, db, other>>

RankingAnswered == resultSets.done /\ resultSets.kind = "ranking"

\* C21: the ranking result of a single-user performance request has one row
\* per group the user belongs to and has sales in within the window; the
\* row's rank is the user's dense rank by summed amount among the group's
\* members and its total_users is the number of users ranked in the group.
DenseRank(d, g, u) ==
  1 + Cardinality({d.revenue[v] : v \in {w \in Ranked(d, g) : d.revenue[w] > d.revenue[u]}})

C21_RankingRowsDenseRankAndPeerSize ==
  RankingAnswered =>
    LET u == resultSets.userId IN
      /\ {r.group_id : r \in resultSets.result} = {g \in Groups : u \in Ranked(db, g)}
      /\ Cardinality(resultSets.result) = Cardinality({g \in Groups : u \in Ranked(db, g)})
      /\ \A r \in resultSets.result :
           /\ r.rank = DenseRank(db, r.group_id, u)
           /\ r.total_users = Cardinality(Ranked(db, r.group_id))

(***************************************************************************)
(* Responses per request.  The event loop runs every handler stretch that  *)
(* is ready and the store settles every call it was sent, which is weak    *)
(* fairness of the steps of a request once it has arrived.                 *)
(***************************************************************************)
Arrived == pc # "idle"

LiveSpec == Init /\ [][ExportsNext]_vars /\ WF_vars(Arrived /\ ExportsNext)

\* C22: every request receives exactly one response on every execution
\* path: no response is sent before the handler finishes, a second one is
\* never sent (also when further concurrent statements fail after the
\* answer), and a request that has arrived is eventually answered.
C22_ExactlyOneResponse ==
  /\ [](Len(response) = IF pc = "done" THEN 1 ELSE 0)
  /\ (Arrived ~> (pc = "done" /\ Len(response) = 1))

\* C22 witness: getAllUsersPerformance has answered and two of its three
\* concurrently issued statements have failed.
C22_Witness ==
  /\ endpoint = "getAllUsersPerformance"
  /\ pc = "done"
  /\ Len(calls) = 3
  /\ Cardinality({i \in 1..3 : calls[i].status = "failed"}) >= 2
  /\ Len(response) = 1
  /\ response[1].status = 500

\* C23: no statement is retried and sequential endpoints fail fast: within
\* one request no statement is submitted to the store twice, and in every
\* endpoint that awaits its store calls one after another a failed call
\* (the existence lookup included) is the last call of the request.
C23_NoRetryAndFailFast ==
  /\ \A i, j \in DOMAIN calls : i # j => calls[i].stmt # calls[j].stmt
  /\ endpoint \notin ConcurrentEndpoints =>
       \A i \in DOMAIN calls : calls[i].status = "failed" => i = Len(calls)

\* C23 witness: getUserPerformance has answered 500 after its trends
\* statement, the third call, failed; the ranking statement was not issued.
C23_Witness ==
  /\ endpoint = "getUserPerformance"
  /\ pc = "done"
  /\ Len(calls) = 3
  /\ calls[1].status = "ok"
  /\ calls[2].status = "ok"
  /\ calls[3].status = "failed"
  /\ Len(response) = 1
  /\ response[1].status = 500

\* C24: for every raw page and limit input, the limit and offset that
\* getPaginationParams returns, which the listing handlers bind to LIMIT and
\* OFFSET, satisfy limit >= 1 and offset >= 0, and the reported
\* meta.pagination.pages is >= 0.
C24_PaginationValuesInRange ==
  pgOut.done =>
    /\ pgOut.pagination.limit >= 1
    /\ pgOut.pagination.offset >= 0
    /\ PgPagination.pages >= 0

(***************************************************************************)
(* The listing and count statements over the tables.  The sales rows of a  *)
(* database are those that satisfy the fragments on columns of sales, its  *)
(* users those that satisfy the fragments on columns of users; what        *)
(* a statement adds to that is its joins and, with the membership join,    *)
(* the fragment ug.group_id = $n, whose bound value names group "g1".      *)
(***************************************************************************)
Range(seq) == {seq[k] : k \in DOMAIN seq}

\* The rows of FROM ... JOIN ... WHERE ..., without LIMIT and OFFSET: one row per
\* base row (a sale, or a user when the statement selects FROM users), per
\* matching row of users (JOIN users u ON s.user_id = u.id) and per matching
\* row of user_groups (JOIN user_groups ug ON s.user_id = ug.user_id).
JoinedRows(stmt, d) ==
  LET joinsGroups == "user_groups ug" \in Range(stmt.tables)
      joinsUsers == "users u" \in Range(stmt.tables)
      restricted == \E k \in DOMAIN stmt.where : stmt.where[k].col = "ug.group_id"
      fromUsers == stmt.tables[1] = "users u"
      base == IF fromUsers THEN {<<u, 1>> : u \in Users}
              ELSE UNION {{<<u, k>> : k \in 1..d.revenue[u]} : u \in Users}
      memberships(u) == IF joinsGroups
                        THEN {g \in d.member[u] : restricted => g = "g1"}
                        ELSE {"none"}
      orphaned == IF joinsGroups \/ joinsUsers \/ fromUsers THEN {}
                  ELSE {<<<<"orphan", k>>, "none">> : k \in 1..d.orphans}
  IN  UNION {{<<b, g>> : g \in memberships(b[1])} : b \in base} \cup orphaned

\* result.rows.length of a statement without LIMIT and OFFSET, and the count
\* that SELECT COUNT returns; the store rejects (-1) a statement whose WHERE
\* names a table it does not join.
RowCount(stmt, d) ==
  IF /\ \E k \in DOMAIN stmt.where : stmt.where[k].col = "ug.group_id"
     /\ "user_groups ug" \notin Range(stmt.tables)
  THEN -1
  ELSE Cardinality(JoinedRows(stmt, d))

\* The filter combinations of the listing requests run over the tables.
CountedQueries ==
  { [NoQuery EXCEPT !.groupId = g, !.userId = u, !.role = r] :
      g \in {Undef, Str("7")}, u \in {Undef, Str("42")}, r \in {Undef, Str("manager")} }

\* The listing statement of a listing endpoint and its count statement.
ListingQueryOf(ep, f, q) ==
  CASE ep = "listSales" -> listSalesQuery(f, q)
    [] ep = "getUserSales" -> getUserSalesQuery(f)
    [] ep = "getGroupUsers" -> getGroupUsersQuery(f)
    [] ep = "getGroupSales" -> getGroupSalesQuery(f)

CountQueryOf(ep, f, q) ==
  CASE ep = "listSales" -> listSalesCountQuery(f, q)
    [] ep = "getUserSales" -> getUserSalesCountQuery(f)
    [] ep = "getGroupUsers" -> getGroupUsersCountQuery(f)
    [] ep = "getGroupSales" -> getGroupSalesCountQuery(f)

\* const result = await pool.query(query, queryParams): the listing statement of
\* a listing handler runs over the tables as they are when it runs.  unlimited
\* is the number of rows it gives without LIMIT and OFFSET.
RunListing ==
  /\ resultSets = NoResultSets
  /\ \E ep \in ListingEndpoints, q \in CountedQueries :
       LET r == ListingBuildOf(ep, Str("42"), q)
           listing == ListingQueryOf(ep, r.frame, q)
       IN  /\ ~r.threw
           /\ resultSets' =
                [done |-> FALSE, kind |-> "listing", endpoint |-> ep, query |-> q,
                 frame |-> r.frame, listedOn |-> db,
                 listing |-> listing, listingParams |-> r.frame.queryParams,
                 unlimited |-> RowCount(listing, db)]
  /\ UNCHANGED <<endpoint, req, pc, frame, calls, response, pgIn, pgOut, store, db, other>>

\* Another client of the database commits a sale that satisfies the fragments,
\* while the handler waits between its two statements.
InsertSale ==
  /\ resultSets.kind = "listing"
  /\ ~resultSets.done
  /\ db = resultSets.listedOn
  /\ \E u \in Users :
       /\ db.revenue[u] < MaxAmount
       /\ db' = [db EXCEPT !.revenue[u] = @ + 1]
  /\ UNCHANGED <<endpoint, req, pc, frame, calls, response, pgIn, pgOut, store, resultSets, other>>

\* const countResult = await pool.query(countQuery, queryParams.slice(...)): the
\* count statement, issued after the listing resolved, runs over the tables as
\* they are by then.
RunCount ==
  /\ resultSets.kind = "listing"
  /\ ~resultSets.done
  /\ LET count == CountQueryOf(resultSets.endpoint, resultSets.frame, resultSets.query)
     IN  resultSets' =
           [done |-> TRUE, kind |-> "listing", endpoint |-> resultSets.endpoint,
            query |-> resultSets.query, frame |-> resultSets.frame,
            listedOn |-> resultSets.listedOn,
            listing |-> resultSets.listing, listingParams |-> resultSets.listingParams,
            unlimited |-> resultSets.unlimited,
            count |-> count,
            countParams |-> CountParams(resultSets.frame.queryParams,
                                        resultSets.frame.paramIndex),
            total |-> RowCount(count, db)]
  /\ UNCHANGED <<endpoint, req, pc, frame, calls, response, pgIn, pgOut, store, db, other>>

QueryInit ==
  /\ endpoint = "none"
  /\ req = Request(Undef, NoQuery)
  /\ pc = "idle"
  /\ frame = EmptyFrame
  /\ calls = <<>>
  /\ response = <<>>
  /\ pgIn = NoPgIn
  /\ pgOut = NoPgOut
  /\ store = NoStore
  /\ db \in Databases
  /\ resultSets = NoResultSets
  /\ other = NoOther

QueryNext ==
  \/ RunRanking
  \/ RunListing \/ InsertSale \/ RunCount

QuerySpec == QueryInit /\ [][QueryNext]_vars

ListingCounted == resultSets.done /\ resultSets.kind = "listing"

ReferentialIntegrity(d) == d.orphans = 0

\* No other client wrote between the listing statement and the count statement.
StoreUnchanged == db = resultSets.listedOn

\* C25: on an unchanged store that satisfies referential integrity, for
\* every filter combination of a listing endpoint the total of the count
\* statement equals the number of rows of the listing statement without
\* LIMIT/OFFSET: the count statement has the same WHERE fragments bound to
\* the same values, joins user_groups exactly when the listing does, and
\* the listing's only other join is the one to users.
C25_CountEqualsUnlimitedListing ==
  (ListingCounted /\ ReferentialIntegrity(db) /\ StoreUnchanged) =>
    /\ resultSets.total = resultSets.unlimited
    /\ resultSets.total >= 0
    /\ resultSets.count.where = resultSets.listing.where
    /\ \A k \in DOMAIN resultSets.count.where :
         resultSets.countParams[resultSets.count.where[k].ph]
           = resultSets.listingParams[resultSets.listing.where[k].ph]
    /\ "user_groups ug" \in Range(resultSets.count.tables)
         <=> "user_groups ug" \in Range(resultSets.listing.tables)
    /\ Range(resultSets.listing.tables) \ Range(resultSets.count.tables) \subseteq {"users u"}

\* C25 witness: listSales with a group filter over tables in which two
\* sales of members of the group qualify; the listing joins users and the
\* count statement does not.
C25_Witness ==
  /\ ListingCounted
  /\ ReferentialIntegrity(db)
  /\ StoreUnchanged
  /\ resultSets.endpoint = "listSales"
  /\ "user_groups ug" \in Range(resultSets.listing.tables)
  /\ "users u" \in Range(resultSets.listing.tables)
  /\ "users u" \notin Range(resultSets.count.tables)
  /\ resultSets.unlimited >= 2
  /\ resultSets.total = resultSets.unlimited

(***************************************************************************)
(* Two requests in flight.  endpoint, req, pc, frame, calls and response   *)
(* belong to the request whose stretch the event loop runs; other holds    *)
(* the same of the second request, which waits at an await or has not      *)
(* arrived yet.  conditions, queryParams and paramIndex are declared with  *)
(* const and let inside each handler, so each call of a handler has its    *)
(* own: turning to the other request exchanges all six.                    *)
(***************************************************************************)
Suspended(ep, r, label, f, cs, rs) ==
  [endpoint |-> ep, req |-> r, pc |-> label, frame |-> f, calls |-> cs, response |-> rs]

\* Handlers whose fragment list, parameter list and index counter are variables
\* of the module: the request that resumes finds what the other one left.
SwitchSharingLocals ==
  /\ other' = Suspended(endpoint, req, pc, frame, calls, response)
  /\ endpoint' = other.endpoint
  /\ req' = other.req
  /\ pc' = other.pc
  /\ calls' = other.calls
  /\ response' = other.response
  /\ UNCHANGED <<frame, pgIn, pgOut, store, db, resultSets>>

\* The event loop turns from the request it was running to the other one.

Switch ==
  /\ other' = Suspended(endpoint, req, pc, frame, calls, response)
  /\ endpoint' = other.endpoint
  /\ req' = other.req
  /\ pc' = other.pc
  /\ frame' = other.frame
  /\ calls' = other.calls
  /\ response' = other.response
  /\ UNCHANGED <<pgIn, pgOut, store, db, resultSets>>

\* The requests that are in flight together.
PairQueries ==
  { [NoQuery EXCEPT !.page = pg, !.startDate = sd] :
      pg \in {Undef, Str("2")}, sd \in {Undef, Str("2021-02-01")} }

\* GET /api/metrics/users/42/sales arrives
ArriveUserSales ==
  /\ pc = "idle"
  /\ \E q \in PairQueries : Enter("getUserSales", Str("42"), q)

\* GET /api/metrics/groups/7/sales arrives
ArriveGroupSales ==
  /\ pc = "idle"
  /\ \E q \in PairQueries : Enter("getGroupSales", Str("7"), q)

PairInit ==
  /\ endpoint = "none"
  /\ req = Request(Undef, NoQuery)
  /\ pc = "idle"
  /\ frame = EmptyFrame
  /\ calls = <<>>
  /\ response = <<>>
  /\ pgIn = NoPgIn
  /\ pgOut = NoPgOut
  /\ store = NoStore
  /\ db = NoDb
  /\ resultSets = NoResultSets
  /\ other = Suspended("none", Request(Undef, NoQuery), "idle", EmptyFrame, <<>>, <<>>)

PairNext ==
  \/ ArriveUserSales \/ getUserSalesQueryStep \/ getUserSalesCount \/ getUserSalesRespond
  \/ ArriveGroupSales \/ getGroupSalesQueryStep \/ getGroupSalesCount \/ getGroupSalesRespond
  \/ StoreResolve \/ StoreFail
  \/ Switch

PairSpec == PairInit /\ [][PairNext]_vars

\* What a request submits and returns when nothing else runs: a function of
\* its own endpoint and inputs and of the results the store gave it.
AsIfAlone(c) ==
  LET r == ListingBuildOf(c.endpoint, c.req.id, c.req.query)
      base == IF c.endpoint = "getUserSales"
              THEN <<"/api/metrics/users/", c.req.id.s, "/sales">>
              ELSE <<"/api/metrics/groups/", c.req.id.s, "/sales">>
  IN  /\ Len(c.calls) >= 1 =>
           /\ c.calls[1].stmt = ExistsQuery(TableOf(c.endpoint))
           /\ c.calls[1].params = <<Bind("id", c.req.id)>>
      /\ Len(c.calls) >= 2 =>
           /\ c.calls[2].stmt = ListingQueryOf(c.endpoint, r.frame, c.req.query)
           /\ c.calls[2].params = r.frame.queryParams
      /\ Len(c.calls) >= 3 =>
           /\ c.calls[3].stmt = CountQueryOf(c.endpoint, r.frame, c.req.query)
           /\ c.calls[3].params = CountParams(r.frame.queryParams, r.frame.paramIndex)
      /\ Len(c.calls) <= 3
      /\ (Len(c.response) = 1 /\ c.response[1].status = 200) =>
           c.response[1] = DataResponse(formatPaginatedResponse(
                             c.calls[2].n, r.frame.pagination, c.calls[3].n, base, r.frame.filters))

Running == Suspended(endpoint, req, pc, frame, calls, response)

\* C26: requests are isolated from each other: under any interleaving of
\* two in-flight requests at their store suspension points, the statements
\* and bound values each request submits, and the pagination and filter
\* metadata it returns, are those it submits and returns when it runs alone.
C26_RequestsIsolated ==
  \A c \in {Running, other} : c.endpoint # "none" => AsIfAlone(c)

\* C26 witness: the user-sales request has issued its count statement while
\* the group-sales request, which carries different filters, waits for its
\* listing statement.
C26_Witness ==
  /\ endpoint = "getUserSales"
  /\ other.endpoint = "getGroupSales"
  /\ pc = "count"
  /\ Len(calls) = 3
  /\ other.pc = "query"
  /\ Len(other.calls) = 2
  /\ req.query.startDate # other.req.query.startDate
  /\ req.query.page # other.req.query.page

====
